---- MODULE Spec2Model ----
(***************************************************************************)
(* NAS100 bot: the execution engine's session state machine                *)
(* (ExecutionEngine.js) with the callers that drive it (trading-bot.js)    *)
(* and the request layer it awaits (CTraderConnection.js send).            *)
(*                                                                         *)
(* One action is one turn of the Node.js event loop: a handler runs to its *)
(* first await that really suspends (a request to the broker or to the     *)
(* state store); the rest of the handler is a later action.                *)
(***************************************************************************)
EXTENDS Integers, Sequences, FiniteSets, TLC

NoPrice == -1           \* null in a price field (raw prices are unsigned)
NoDate == -1            \* null in lastResetDate
NoId == 0               \* an execution event without position

\* ---------------------------------------------------------------- bounds
MaxInFlight == 2        \* openPosition calls suspended at the same time
MaxFailures == 4        \* orderFailureCount is not counted beyond this
MaxReconciles == 1      \* reconcile requests awaiting their answer
MaxResetsLoading == 1   \* non-forced resets awaiting loadState
MaxRetryTimers == 1     \* baseline retry timers waiting to fire
MaxDay == 1             \* calendar days after the day the process started
MaxFrames == 2          \* payloads the peer writes
MaxPayloadLen == 2      \* bytes in a payload
BadLength == 16777216   \* a length no frame of the peer reaches: bytes 1 0 0 0
MaxMsgId == 4           \* requests sent over the life of the process
MaxPending == 2         \* entries of pendingRequests
MaxSockets == 2         \* sockets that open
MaxReconnects == 2      \* reconnections in a row without an account auth
MaxBotMsgId == 10        \* requests sent by the bot with its engine attached
MaxBotPending == 3      \* entries of pendingRequests, engine attached
MaxBars == 2            \* bars in a trendbar answer
TargetMinute == 1       \* the target minute, on a clock of minutes 0..1
BarLow == 1000000000    \* raw low of a bar
BarDelta == 100000      \* raw distance from a bar's low to its open
MaxCloses == 3          \* closing fills handled on top of the restored history
MaxConfigSaves == 2     \* saves of updateConfig still being written
MaxOrphans == 1         \* live sockets this.socket no longer references
MaxSaves == 2           \* writes of the state store in flight
MaxStrayTimers == 1     \* armed timers reconnectTimeout no longer references

\* ------------------------------------------------------ program constants
multiplier == 100000    \* raw price = real price * 100000
LotUnit == 1000         \* lotSize is held in thousandths of a lot
VolumePerLot == 100     \* openPosition: volume = lots * 100
minVolume == 10         \* openPosition's fixed minimum volume
baseLotSize == 100      \* config.account.baseLotSize: 0.1 lot
NoVolume == 0           \* a request without volume field
defaultVolume == 100000 \* getSymbolInfo's stepVolume and minVolume when the
                        \* instrument has none
ENTRY_OFFSET == 10      \* the configuration's default entryOffset, in points
retryCap == 3           \* rejections that still clear todayTradeDone
MAX_RETRIES == 1        \* baseline fetch retries
longTP == 8
shortTP == 5
longSL == 1000
shortSL == 1000
winterOpenMinutes == 450    \* 07:30
winterCloseMinutes == 360   \* 06:00
summerOpenMinutes == 390    \* 06:30
summerCloseMinutes == 300   \* 05:00
maxReconnectAttempts == 10
reconnectDelay == 1000              \* ms
MAX_RECONNECT_DELAY_MS == 60000

\* ------------------------------------------------------------ input sets
\* Raw quotes; NAS100 quotes are whole multiples of the tick size, so the
\* mid price (bid + ask) / 2 of two quotes of this set is a whole number.
\* Around the baseline: mid prices one offset below, at, and one offset above.
SpotPrices == {999000000, 1001000000}
\* The quotes of a session that rallies: every mid price is one offset above
\* the baseline.
RallyPrices == {1001000000}
\* Open prices of the target M1 bar (raw): 10000 points.
Baselines == {1000000000}
\* Values parseFloat can give entryOffset through updateConfig.
PROFIT_DIVISOR == 10000 \* the broker's profit amounts are in 1/10000
HISTORY == 50           \* records handleTradeClosed keeps in trades

Offsets == {-ENTRY_OFFSET, 0, ENTRY_OFFSET}
\* Minutes of the day (Asia/Taipei) a tick can arrive at: 05:30 is inside the
\* winter hours and outside the summer hours, 06:40 the other way round.
ClockMinutes == {330, 400}
PositionIds == {1}
\* The byte values payloads are made of.
Bytes == {0, 1}
\* The payload types of inbound messages: the two authentication responses,
\* the heartbeat, a pushed event.
MessageTypes == {"ProtoOAApplicationAuthRes", "ProtoOAAccountAuthRes",
                 "ProtoHeartbeatEvent", "ProtoOAExecutionEvent"}
\* Decoded inbound messages; clientMsgId 0 stands for a message without one.
Messages == [payloadType : MessageTypes, clientMsgId : 0..MaxMsgId]
\* The requests the engine sends.
EngineRequests == {"ProtoOANewOrderReq"}

VARIABLES
    todayTradeDone,
    todayOpenPrice,
    currentPrice,
    isWatching,
    isPlacingOrder,
    orderFailureCount,
    entryOffset,
    pendingSlTp,       \* <<>> when null, else <<[type, stopLoss, takeProfit]>>
    positions,
    lastResetDate,
    lastBasePriceFetchAttempt,   \* FALSE while null
    fetching,          \* <<>>, or <<the fetchAndSetOpenPrice call in flight>>
    retryTimers,       \* setTimeout retries of fetchAndSetOpenPrice not yet fired
    placements,        \* openPosition calls in flight: <<[type, stage]>>
    resetsLoading,     \* todayStr of each non-forced resetDaily awaiting loadState
    reconciles,        \* reconcilePositions calls awaiting ProtoOAReconcileRes
    dbState,           \* the state store: <<>> when absent, else <<snapshot>>
    today,             \* the calendar day (Asia/Taipei) of the wall clock
    openFillSeen,      \* history: an opening fill was handled since the last reset
    afterOpen,         \* the wall clock of today is at or after the market's open
    botLastResetDate,  \* TradingBot.lastResetDate, NoDate while null
    sessionResetDone,  \* history: a reset has cleared the state since the last open
    fetchPredatesReset,\* history: the fetch in flight started before the latest
                       \* reset that cleared the state
    trades,            \* ExecutionEngine.trades: the records [id, profit, no],
                       \* newest first; no counts the closing fills
    wins,
    losses,
    sent,              \* history: the order or bracket request the engine's
                       \* latest step passed to send, <<>> if it sent none
    emitted,           \* history: the signal reconcilePositions or the baseline
                       \* fetch emitted to the listeners in the engine's latest
                       \* step, "none" if that step emitted none of theirs
    tradeSignal,       \* history: the latest signal openPosition emitted,
                       \* "trade-opened" or "trade-error"; "none" before
    connected,         \* CTraderConnection.connected
    authenticated,     \* CTraderConnection.authenticated
    incomingBuffer,    \* CTraderConnection.incomingBuffer, a sequence of bytes
    wire,              \* the bytes the peer wrote that no 'data' event has delivered
    payloads,          \* history: the payloads the peer framed and wrote
    frames,            \* history: the messageBytes handed to ProtoMessage.decode
    handled,           \* history: the messageBytes whose decode and handleMessage
                       \* returned without throwing
    throwing,          \* the messageBytes on which decode or handleMessage throws
    socket,            \* CTraderConnection.socket: "null", or the state of the
                       \* socket object: "connecting", "open", "closed"
    destroyed,         \* sockets destroyed by disconnect() whose 'close' event
                       \* has not been emitted yet
    reconnectAttempts,
    reconnectTimeout,  \* "null", or the state of the timer object: "armed", "fired"
    heartbeatInterval, \* TRUE while the interval timer is set
    heartbeatStale,    \* Date.now() - lastHeartbeat > HEARTBEAT_TIMEOUT_MS
    pendingRequests,   \* the Map, as the set of its entries [id, type, socketNo]
    nextClientMsgId,
    unsettled,         \* history: ids whose promise from send is still pending
    socketNo,          \* history: how many sockets have opened
    firstIdOnSocket,   \* history: nextClientMsgId when the latest socket opened
    delivered,         \* history: the 'message' event the latest handleMessage
                       \* call emitted, <<>> before the first call
    reconnectFailed,   \* history: 'reconnect-failed' has been emitted
    subscribeSent,     \* history: a ProtoOASubscribeSpotsReq was sent since the
                       \* latest account-auth success
    configSaves,       \* the snapshots updateConfig's saveState is writing
    apiReply,          \* history: the latest reply of POST /api/action
                       \* updateConfig: "none", "success", "error"
    orphaned,          \* sockets still connecting or open that this.socket no
                       \* longer references (a later connect() replaced them)
    strayTimers,       \* reconnect timers still armed that reconnectTimeout no
                       \* longer references (a later setTimeout replaced them)
    delay,             \* history: the delay of the latest timer scheduleReconnect
                       \* set, in ms; 0 before the first
    attemptsSinceReady, \* history: connect() calls of the reconnect timer since
                       \* the last account-auth success
    lotSize,           \* this.lotSize, in thousandths of a lot
    symbolData,        \* the instrument's stepVolume and minVolume as
                       \* getSymbolInfo returns them
    initStep,          \* where TradingBot.init stands: "connect" until its
                       \* await connect() returns, "load" while the engine's
                       \* initialize awaits loadState, "done" once initialize
                       \* has called reconcilePositions
    watchAsked,        \* history: startWatching was called for a session not
                       \* yet watched while a baseline fetch was in flight,
                       \* and that fetch has not settled
    saves,             \* the snapshots whose write by db.saveState has begun
                       \* and not ended, in the order of the saveState calls
    brokerOrders       \* the broker's side: the bot's market orders it holds
                       \* and has neither filled nor rejected, each with the
                       \* bracket its placement stashed

vars == <<todayTradeDone, todayOpenPrice, currentPrice, isWatching, isPlacingOrder,
          orderFailureCount, entryOffset, pendingSlTp, positions, lastResetDate,
          lastBasePriceFetchAttempt, fetching, retryTimers, placements,
          resetsLoading, reconciles, dbState, today, openFillSeen, afterOpen,
          botLastResetDate, sessionResetDone, fetchPredatesReset, connected,
          authenticated, incomingBuffer, wire, payloads, frames, socket,
          destroyed, reconnectAttempts, reconnectTimeout, heartbeatInterval,
          heartbeatStale, pendingRequests, nextClientMsgId, unsettled, socketNo,
          firstIdOnSocket, delivered, reconnectFailed, attemptsSinceReady,
          orphaned, strayTimers, delay, subscribeSent, configSaves, apiReply,
          handled, throwing, sent, emitted, trades, wins, losses,
          lotSize, symbolData, brokerOrders, initStep, watchAsked, saves, tradeSignal>>

\* The wall clock's side of the open and the bot's own reset date: only the
\* steps of the calendar change them.
calendarVars == <<afterOpen, botLastResetDate>>

\* The fields of the connection.
connVars == <<connected, authenticated, incomingBuffer, wire, payloads, frames,
              handled, throwing,
              socket, destroyed, reconnectAttempts, reconnectTimeout,
              heartbeatInterval, heartbeatStale, pendingRequests, nextClientMsgId,
              unsettled, socketNo, firstIdOnSocket, delivered, reconnectFailed,
              attemptsSinceReady, orphaned, strayTimers, delay>>

\* The sockets and timers the fields have lost, and the latest delay.
strayVars == <<orphaned, strayTimers, delay>>

\* The trade history and its counters. Only handleTradeClosed writes them;
\* closingFill follows it, the order lifecycle's actions leave them aside.
ledgerVars == <<trades, wins, losses>>

\* The order size's inputs. updateConfig and the state store write lotSize,
\* getSymbolInfo caches symbolData; the actions here only read them.
orderVars == <<lotSize, symbolData>>

\* The broker's order book. The execution events of SpecOrders come from
\* it; elsewhere the broker pushes any event and the book is left aside.
brokerVars == <<brokerOrders>>

\* TradingBot.init's position. SpecStartup follows it; elsewhere the start
\* of the bot is left aside.
startVars == <<initStep>>

\* The watch-time call that met a fetch in flight. SpecWatch follows it;
\* elsewhere it is left aside.
watchVars == <<watchAsked>>

\* The writes of the state store in flight. SpecSaves follows them;
\* elsewhere a write ends within the step of its saveState call.
saveVars == <<saves>>

\* The signal of the latest placement. SpecReplies follows it; elsewhere
\* the signals of openPosition are left aside.
signalVars == <<tradeSignal>>

\* What the bot adds around the engine and the connection: the requests the
\* engine's listeners send, the dashboard's configuration changes.
botVars == <<subscribeSent, configSaves, apiReply>>

\* The fields of the engine and of the bot, with their history.
engineVars == <<todayTradeDone, todayOpenPrice, currentPrice, isWatching,
                isPlacingOrder, orderFailureCount, entryOffset, pendingSlTp,
                positions, lastResetDate, lastBasePriceFetchAttempt, fetching,
                retryTimers, placements, resetsLoading, reconciles, dbState,
                today, openFillSeen, afterOpen, botLastResetDate,
                sessionResetDone, fetchPredatesReset, sent, emitted>>

\* The framer's buffer and the stream it reads.
framingVars == <<incomingBuffer, wire, payloads, frames, handled, throwing>>

\* ------------------------------------------------------------- helpers
RemoveAt(s, i) == SubSeq(s, 1, i - 1) \o SubSeq(s, i + 1, Len(s))

\* What the state store can hold when the process starts on day 0: the last
\* reset was today, or there was none (an earlier day compares like none).
Snapshots == [todayTradeDone : BOOLEAN, lastResetDate : {NoDate, 0}]

\* saveState: the snapshot of the fields as the handler leaves them reaches
\* the store, or the write fails and the store keeps what it had.
saveState(ok, ttd, lrd) ==
    dbState' = IF ok THEN <<[todayTradeDone |-> ttd, lastResetDate |-> lrd]>> ELSE dbState

isFetchingOpenPrice == fetching # <<>>

todayStr == today

\* isWithinTradingHours at minute currentMinutes of the day.
isWithinTradingHours(currentMinutes, isDst) ==
    LET openMinutes == IF isDst THEN summerOpenMinutes ELSE winterOpenMinutes
        closeMinutes == IF isDst THEN summerCloseMinutes ELSE winterCloseMinutes
    IN  IF currentMinutes >= openMinutes THEN TRUE
        ELSE IF currentMinutes < closeMinutes THEN TRUE
        ELSE FALSE

\* executeStrategy's entry rule on diff = currentPrice - todayOpenPrice.
EntrySignal(price, base, offset) ==
    LET diff == price - base
        offsetRaw == offset * multiplier
    IN  IF diff >= offsetRaw THEN "short"
        ELSE IF diff <= -offsetRaw THEN "long"
        ELSE "none"

\* Variant: a bracket around the current price.
Bracket_AroundCurrentPrice(type, base) ==
    LET priceReal == IF currentPrice = NoPrice THEN 0 ELSE currentPrice \div multiplier
    IN  IF type = "long"
        THEN [type |-> type, stopLoss |-> priceReal - longSL,
              takeProfit |-> priceReal + longTP]
        ELSE [type |-> type, stopLoss |-> priceReal + shortSL,
              takeProfit |-> priceReal - shortTP]

\* openPosition's bracket, in real prices, from the baseline at that moment
\* (null / 100000 is 0 in JavaScript).
Bracket(type, base) ==
    LET openPriceReal == IF base = NoPrice THEN 0 ELSE base \div multiplier
    IN  IF type = "long"
        THEN [type |-> type, stopLoss |-> openPriceReal - longSL,
              takeProfit |-> openPriceReal + longTP]
        ELSE [type |-> type, stopLoss |-> openPriceReal + shortSL,
              takeProfit |-> openPriceReal - shortTP]

\* A request as the engine passes it to send: its type, the position it
\* names, the bracket and the volume it carries.
Request(payloadType, positionId, bracket, volume) ==
    [payloadType |-> payloadType, positionId |-> positionId, bracket |-> bracket,
     volume |-> volume]

\* openPosition's volume: Math.round(lotSize * 100), raised to the fixed
\* minimum of 10. symbolData is fetched but not read here.
orderVolume(lots, symbol) ==
    LET volume == (lots * VolumePerLot + LotUnit \div 2) \div LotUnit
    IN  IF volume < minVolume THEN minVolume ELSE volume

NumAwaitingOrder(ps) == Cardinality({i \in 1..Len(ps) : ps[i].stage = "order"})

\* ---------------------------------------------------------------- Init
\* The engine's fields but the trade history and the order size's inputs
\* after its constructor and initialize(): the flags restored from the state
\* store, watching off, no baseline.
EngineFlags ==
    /\ dbState \in {<<>>} \cup {<<s>> : s \in Snapshots}
    /\ todayTradeDone = (IF dbState = <<>> THEN FALSE ELSE dbState[1].todayTradeDone)
    /\ lastResetDate = (IF dbState = <<>> THEN NoDate ELSE dbState[1].lastResetDate)
    /\ todayOpenPrice = NoPrice
    /\ currentPrice = NoPrice
    /\ isWatching = FALSE
    /\ isPlacingOrder = FALSE
    /\ orderFailureCount = 0
    /\ entryOffset = ENTRY_OFFSET
    /\ pendingSlTp = <<>>
    /\ positions \in SUBSET PositionIds
    /\ lastBasePriceFetchAttempt = FALSE
    /\ fetching = <<>>
    /\ retryTimers = 0
    /\ placements = <<>>
    /\ resetsLoading = <<>>
    /\ reconciles = 0
    /\ today = 0
    /\ openFillSeen = FALSE
    /\ afterOpen = FALSE
    /\ botLastResetDate = NoDate
    /\ sessionResetDone = FALSE
    /\ sent = <<>>
    /\ emitted = "none"
    /\ fetchPredatesReset = FALSE
    /\ brokerOrders = {}

\* The instrument without volume metadata: getSymbolInfo's defaults.
DefaultSymbol == [stepVolume |-> defaultVolume, minVolume |-> defaultVolume]

\* The engine's fields but the trade history, with the configured lot size.
EngineFields ==
    /\ EngineFlags
    /\ lotSize = baseLotSize
    /\ symbolData = DefaultSymbol

\* The engine after its constructor and initialize() on a store without
\* trade history.
EngineInit ==
    /\ EngineFields
    /\ trades = <<>>
    /\ wins = 0
    /\ losses = 0

\* The connection after its constructor, nothing on the wire.
ConnInit ==
    /\ connected = FALSE
    /\ authenticated = FALSE
    /\ incomingBuffer = <<>>
    /\ wire = <<>>
    /\ payloads = <<>>
    /\ frames = <<>>
    /\ handled = <<>>
    /\ throwing = {}
    /\ socket = "null"
    /\ destroyed = 0
    /\ reconnectAttempts = 0
    /\ reconnectTimeout = "null"
    /\ heartbeatInterval = FALSE
    /\ heartbeatStale = FALSE
    /\ pendingRequests = {}
    /\ nextClientMsgId = 1
    /\ unsettled = {}
    /\ socketNo = 0
    /\ firstIdOnSocket = 1
    /\ delivered = <<>>
    /\ reconnectFailed = FALSE
    /\ attemptsSinceReady = 0
    /\ orphaned = 0
    /\ strayTimers = 0
    /\ delay = 0
    /\ subscribeSent = FALSE
    /\ configSaves = <<>>
    /\ apiReply = "none"
    /\ initStep = "connect"
    /\ watchAsked = FALSE
    /\ saves = <<>>
    /\ tradeSignal = "none"

Init == EngineInit /\ ConnInit

\* ------------------------------------------------------------- actions

\* fetchAndSetOpenPrice up to its first await: the guard, then the old
\* baseline is dropped and the fetch guard taken. Gives the new values of
\* todayOpenPrice and fetching.
fetchStart(watch, retryCount) ==
    IF isFetchingOpenPrice
    THEN [openPrice |-> todayOpenPrice, fetching |-> fetching]
    ELSE [openPrice |-> NoPrice,
          fetching |-> <<[watch |-> watch, retryCount |-> retryCount]>>]

\* Variant: the guard without the lock.
openPositionEnters_IgnoresLock == ~todayTradeDone

\* openPosition's guard before the lock is taken: TRUE when the body is entered.
openPositionEnters == ~(todayTradeDone \/ isPlacingOrder)

\* Variant: executeStrategy without the isWatching test.
executeStrategy_IgnoresWatching(price, base, currentMinutes, isDst) ==
    IF price = 0 \/ base = NoPrice \/ base = 0 THEN "none"
    ELSE IF todayTradeDone THEN "none"
    ELSE IF ~isWithinTradingHours(currentMinutes, isDst) THEN "none"
    ELSE EntrySignal(price, base, entryOffset)

\* executeStrategy on the tick's price and the baseline left by the tick's
\* refresh: the side to open, or "none".
executeStrategy(price, base, currentMinutes, isDst) ==
    IF price = 0 \/ base = NoPrice \/ base = 0 THEN "none"
    ELSE IF todayTradeDone \/ ~isWatching THEN "none"
    ELSE IF ~isWithinTradingHours(currentMinutes, isDst) THEN "none"
    ELSE EntrySignal(price, base, entryOffset)

\* handleSpotEvent: a quote with bid and ask; elapsed says whether more than
\* 30 s passed since lastBasePriceFetchAttempt; the wall clock reads
\* currentMinutes, in the season isDst.
handleSpotEvent(bid, ask, elapsed, currentMinutes, isDst) ==
    LET price == (bid + ask) \div 2
        refresh == ~isFetchingOpenPrice /\ (~lastBasePriceFetchAttempt \/ elapsed)
        f == IF refresh THEN fetchStart(FALSE, 0)
             ELSE [openPrice |-> todayOpenPrice, fetching |-> fetching]
        side == executeStrategy(price, f.openPrice, currentMinutes, isDst)
        enters == side # "none" /\ openPositionEnters
    IN  /\ bid # 0 /\ ask # 0
        /\ bid <= ask
        /\ elapsed => lastBasePriceFetchAttempt
        /\ enters => Len(placements) < MaxInFlight
        /\ currentPrice' = price
        /\ lastBasePriceFetchAttempt' = (refresh \/ lastBasePriceFetchAttempt)
        /\ todayOpenPrice' = f.openPrice
        /\ fetching' = f.fetching
        /\ fetchPredatesReset' = (~refresh /\ fetchPredatesReset)
        /\ isPlacingOrder' = (enters \/ isPlacingOrder)
        /\ placements' = IF enters
                         THEN Append(placements, [type |-> side, stage |-> "symbol"])
                         ELSE placements
        /\ sent' = <<>>
        /\ emitted' = "none"
        /\ UNCHANGED <<todayTradeDone, isWatching, orderFailureCount, entryOffset,
                       pendingSlTp, positions, lastResetDate, retryTimers,
                       resetsLoading, reconciles, dbState, today, calendarVars, connVars, botVars, ledgerVars, orderVars, brokerVars, startVars, watchVars, saveVars, signalVars,
                       openFillSeen, sessionResetDone>>

\* Variant: a finally block that releases the lock and keeps watching.
openPositionFinally_KeepsWatching(i) ==
    /\ isPlacingOrder' = FALSE
    /\ UNCHANGED isWatching
    /\ placements' = RemoveAt(placements, i)

\* The finally block of openPosition.
openPositionFinally(i) ==
    /\ isPlacingOrder' = FALSE
    /\ isWatching' = FALSE
    /\ placements' = RemoveAt(placements, i)

\* openPosition after getSymbolInfo: no symbol throws; otherwise the bracket is
\* stashed and the market order sent, and send throws when the socket is down
\* (isConnected is the connection's flag as send reads it).
openPositionStashes(i, symbolFound, isConnected) ==
    /\ i \in 1..Len(placements)
    /\ placements[i].stage = "symbol"
    /\ IF ~symbolFound
       THEN /\ openPositionFinally(i)
            /\ UNCHANGED pendingSlTp
       ELSE /\ pendingSlTp' = <<Bracket(placements[i].type, todayOpenPrice)>>
            /\ IF isConnected
               THEN /\ placements' = [placements EXCEPT ![i].stage = "order"]
                    /\ UNCHANGED <<isPlacingOrder, isWatching>>
               ELSE openPositionFinally(i)
    /\ sent' = IF symbolFound /\ isConnected
               THEN <<Request("ProtoOANewOrderReq", NoId, <<>>, orderVolume(lotSize, symbolData))>>
               ELSE <<>>
    /\ emitted' = "none"
    /\ UNCHANGED <<todayTradeDone, todayOpenPrice, currentPrice, orderFailureCount,
                   entryOffset, positions, lastResetDate, lastBasePriceFetchAttempt,
                   fetching, retryTimers, resetsLoading, reconciles, dbState,
                   today, calendarVars, connVars, botVars, ledgerVars, orderVars, startVars, watchVars, saveVars, fetchPredatesReset, openFillSeen, sessionResetDone>>

\* openPosition after getSymbolInfo, the broker's book aside.
openPositionSend(i, symbolFound, isConnected) ==
    /\ openPositionStashes(i, symbolFound, isConnected)
    /\ UNCHANGED <<brokerVars, signalVars>>

\* openPosition after getSymbolInfo with the signal of its catch: a missing
\* symbol and a send on a closed socket emit trade-error.
openPositionSendSignals(i, symbolFound, isConnected) ==
    /\ openPositionStashes(i, symbolFound, isConnected)
    /\ tradeSignal' = IF symbolFound /\ isConnected THEN tradeSignal ELSE "trade-error"
    /\ UNCHANGED brokerVars

\* The messages the broker sends with the id of a market-order request.
OrderReplies == {"ProtoOAExecutionEvent", "ProtoOAOrderErrorEvent", "ProtoOAErrorRes"}

\* openPosition resumes after await send resolved: finally runs.
openPositionResumes(i) ==
    /\ i \in 1..Len(placements)
    /\ placements[i].stage = "order"
    /\ openPositionFinally(i)
    /\ sent' = <<>>
    /\ emitted' = "none"
    /\ UNCHANGED <<todayTradeDone, todayOpenPrice, currentPrice, orderFailureCount,
                   entryOffset, pendingSlTp, positions, lastResetDate,
                   lastBasePriceFetchAttempt, fetching, retryTimers, resetsLoading,
                   reconciles, dbState, today, calendarVars, connVars, botVars,
                   ledgerVars, orderVars, brokerVars, startVars, watchVars,
                   saveVars, fetchPredatesReset, openFillSeen, sessionResetDone>>

\* The reply carrying the order request's id arrives: send resolves and
\* finally runs, the signal of the try block aside.
openPositionAnswered(i) ==
    /\ openPositionResumes(i)
    /\ UNCHANGED signalVars

\* A message of type payloadType carrying the order request's id arrives:
\* handleMessage resolves send with it whatever its type, openPosition does
\* not read it, trade-opened is emitted, finally runs.
openPositionReplied(i, payloadType) ==
    /\ payloadType \in OrderReplies
    /\ openPositionResumes(i)
    /\ tradeSignal' = "trade-opened"

\* Variant: a request whose timer, when it fires, ends the call without the
\* finally block.
openPositionTimeout_KeepsLock(i) ==
    /\ i \in 1..Len(placements)
    /\ placements[i].stage = "order"
    /\ placements' = RemoveAt(placements, i)
    /\ sent' = <<>>
    /\ emitted' = "none"
    /\ UNCHANGED <<todayTradeDone, todayOpenPrice, currentPrice, isWatching,
                   isPlacingOrder, orderFailureCount, entryOffset, pendingSlTp,
                   positions, lastResetDate, lastBasePriceFetchAttempt, fetching,
                   retryTimers, resetsLoading, reconciles, dbState, today, calendarVars, connVars, botVars, ledgerVars, orderVars, brokerVars, startVars, watchVars, saveVars, signalVars, fetchPredatesReset,
                   openFillSeen, sessionResetDone>>

\* The request's own timer (REQUEST_TIMEOUT_MS) or the write callback rejects
\* send: the catch runs, then finally.
openPositionRejects(i) ==
    /\ i \in 1..Len(placements)
    /\ placements[i].stage = "order"
    /\ openPositionFinally(i)
    /\ sent' = <<>>
    /\ emitted' = "none"
    /\ UNCHANGED <<todayTradeDone, todayOpenPrice, currentPrice, orderFailureCount,
                   entryOffset, pendingSlTp, positions, lastResetDate,
                   lastBasePriceFetchAttempt, fetching, retryTimers, resetsLoading,
                   reconciles, dbState, today, calendarVars, connVars, botVars, ledgerVars, orderVars, brokerVars, startVars, watchVars, saveVars, fetchPredatesReset, openFillSeen, sessionResetDone>>

\* The request's own timer or the write callback rejects send, the signal
\* of the catch aside.
openPositionTimeout(i) ==
    /\ openPositionRejects(i)
    /\ UNCHANGED signalVars

\* The request's own timer or the write callback rejects send: the catch
\* emits trade-error.
openPositionThrows(i) ==
    /\ openPositionRejects(i)
    /\ tradeSignal' = "trade-error"

\* The execution events the broker pushes: executionType 2 accepted, 3 filled,
\* 4 rejected; a fill may carry a deal, the deal a closePositionDetail, the
\* event a position.
ExecutionEvents ==
    {ev \in [executionType : {2, 3, 4}, deal : BOOLEAN, closePositionDetail : BOOLEAN,
             positionId : PositionIds \cup {NoId}] :
        /\ ev.executionType # 3 => ~ev.deal /\ ev.positionId = NoId
        /\ ev.closePositionDetail => ev.deal /\ ev.positionId # NoId
        /\ ~ev.deal => ev.positionId = NoId}

\* Variant: the test with a strict comparison.
withinRetryCap_Strict(count) == count < retryCap

\* The rejection branch's test on the counter it has just incremented.
withinRetryCap(count) == count <= retryCap

isOpeningFill(ev) == ev.executionType = 3 /\ ~(ev.deal /\ ev.closePositionDetail)

\* The request setPositionSlTp builds for the stashed bracket.
AmendRequest(positionId) ==
    Request("ProtoOAAmendPositionSLTPReq", positionId,
            <<[stopLoss |-> pendingSlTp[1].stopLoss,
               takeProfit |-> pendingSlTp[1].takeProfit]>>, NoVolume)

\* Variant: an opening fill that sends the stashed bracket and keeps it.
sentForFill_KeepsBracket(ev) ==
    IF ev.deal /\ pendingSlTp # <<>> /\ ev.positionId # NoId
    THEN /\ sent' = <<AmendRequest(ev.positionId)>>
         /\ UNCHANGED pendingSlTp
    ELSE /\ sent' = <<>>
         /\ UNCHANGED pendingSlTp

\* The opening fill's bracket: with a stashed bracket and a position in the
\* event, setPositionSlTp sends the request for that position (the event
\* arrived on the connected socket) and pendingSlTp is cleared.
sentForFill(ev) ==
    IF ev.deal /\ pendingSlTp # <<>> /\ ev.positionId # NoId
    THEN /\ sent' = <<AmendRequest(ev.positionId)>>
         /\ pendingSlTp' = <<>>
    ELSE /\ sent' = <<>>
         /\ UNCHANGED pendingSlTp

\* handleExecutionEvent, with handleTradeClosed for a closing fill and the
\* reconcile request an opening fill sends.
executionEventHandled(ev, saveOk) ==
    /\ ev \in ExecutionEvents
    /\ IF ev.executionType = 3
       THEN IF ev.deal /\ ev.closePositionDetail
            THEN /\ positions' = positions \ {ev.positionId}
                 /\ saveState(saveOk, todayTradeDone, lastResetDate)
                 /\ sent' = <<>>
                 /\ UNCHANGED <<todayTradeDone, pendingSlTp, reconciles,
                                orderFailureCount, openFillSeen, sessionResetDone>>
            ELSE /\ reconciles < MaxReconciles
                 /\ todayTradeDone' = TRUE
                 /\ saveState(saveOk, TRUE, lastResetDate)
                 /\ sentForFill(ev)
                 /\ reconciles' = reconciles + 1
                 /\ openFillSeen' = TRUE
                 /\ UNCHANGED sessionResetDone
                 /\ UNCHANGED <<positions, orderFailureCount>>
       ELSE IF ev.executionType = 4
       THEN /\ orderFailureCount < MaxFailures
            /\ orderFailureCount' = orderFailureCount + 1
            /\ IF todayTradeDone /\ withinRetryCap(orderFailureCount + 1)
               THEN /\ todayTradeDone' = FALSE
                    /\ saveState(saveOk, FALSE, lastResetDate)
               ELSE UNCHANGED <<todayTradeDone, dbState>>
            /\ sent' = <<>>
            /\ UNCHANGED <<positions, pendingSlTp, reconciles, openFillSeen,
                           sessionResetDone>>
       ELSE /\ sent' = <<>>
            /\ UNCHANGED <<todayTradeDone, positions, pendingSlTp, reconciles,
                           orderFailureCount, dbState, openFillSeen, sessionResetDone>>
    /\ emitted' = "none"
    /\ UNCHANGED <<todayOpenPrice, currentPrice, isWatching, isPlacingOrder,
                   entryOffset, lastResetDate, lastBasePriceFetchAttempt, fetching,
                   retryTimers, placements, resetsLoading, today, calendarVars, connVars, botVars, ledgerVars, orderVars, startVars, watchVars, signalVars, fetchPredatesReset>>

\* handleExecutionEvent on an event the broker pushes, its book aside.
handleExecutionEvent(ev, saveOk) ==
    /\ executionEventHandled(ev, saveOk)
    /\ UNCHANGED <<brokerVars, saveVars, signalVars>>

\* TRUE when handleExecutionEvent on ev calls saveState: on every fill, and
\* on a rejection that resets the flag.
callsSaveState(ev) ==
    \/ ev.executionType = 3
    \/ /\ ev.executionType = 4
       /\ todayTradeDone
       /\ withinRetryCap(orderFailureCount + 1)

\* handleExecutionEvent with its un-awaited saveState: the snapshot is built
\* from the fields as the handler leaves them and its write begins; the
\* store is not written before the handler returns.
executionEventSaves(ev) ==
    /\ Len(saves) < MaxSaves
    /\ executionEventHandled(ev, FALSE)
    /\ saves' = IF callsSaveState(ev)
                THEN Append(saves, [todayTradeDone |-> todayTradeDone',
                                    lastResetDate |-> lastResetDate'])
                ELSE saves
    /\ UNCHANGED brokerVars

\* The write of the i-th snapshot in flight ends and the store takes it.
saveEnds(i) ==
    /\ i \in 1..Len(saves)
    /\ saves' = RemoveAt(saves, i)
    /\ dbState' = <<saves[i]>>
    /\ sent' = <<>>
    /\ emitted' = "none"
    /\ UNCHANGED <<todayTradeDone, todayOpenPrice, currentPrice, isWatching,
                   isPlacingOrder, orderFailureCount, entryOffset, pendingSlTp,
                   positions, lastResetDate, lastBasePriceFetchAttempt, fetching,
                   retryTimers, placements, resetsLoading, reconciles, today,
                   calendarVars, connVars, botVars, ledgerVars, orderVars,
                   brokerVars, startVars, watchVars, signalVars, fetchPredatesReset,
                   openFillSeen, sessionResetDone>>

\* The market order of a placement reaches the broker with the request:
\* the book gains the order, tagged with the bracket just stashed.
placeOrder(i, symbolFound, isConnected) ==
    /\ openPositionStashes(i, symbolFound, isConnected)
    /\ brokerOrders' = IF symbolFound /\ isConnected
                       THEN brokerOrders \cup {pendingSlTp'[1]}
                       ELSE brokerOrders
    /\ UNCHANGED signalVars

\* The broker fills the order o: the event of an opening deal on position
\* positionId.
brokerFills(o, positionId, saveOk) ==
    /\ o \in brokerOrders
    /\ positionId \in PositionIds
    /\ executionEventHandled([executionType |-> 3, deal |-> TRUE,
                              closePositionDetail |-> FALSE,
                              positionId |-> positionId], saveOk)
    /\ brokerOrders' = brokerOrders \ {o}
    /\ UNCHANGED <<saveVars, signalVars>>

\* The broker rejects the order o.
brokerRejects(o, saveOk) ==
    /\ o \in brokerOrders
    /\ executionEventHandled([executionType |-> 4, deal |-> FALSE,
                              closePositionDetail |-> FALSE,
                              positionId |-> NoId], saveOk)
    /\ brokerOrders' = brokerOrders \ {o}
    /\ UNCHANGED <<saveVars, signalVars>>

\* The deals of closing fills: the position closed and the net profit in
\* the broker's unit (1/10000), grossProfit + swap + commission.
DealIds == {1, 2}

Deals == [positionId : DealIds, netProfitRaw : {-PROFIT_DIVISOR, 0, PROFIT_DIVISOR}]

\* Variant: a history that drops its oldest record once it holds 50.
unshiftCapped_AtFifty(list, record) ==
    LET longer == <<record>> \o list
    IN  IF Len(longer) >= HISTORY THEN SubSeq(longer, 1, Len(longer) - 1) ELSE longer

\* trades.unshift(record), then pop() when the length exceeds 50.
unshiftCapped(list, record) ==
    LET longer == <<record>> \o list
    IN  IF Len(longer) > HISTORY THEN SubSeq(longer, 1, Len(longer) - 1) ELSE longer

\* handleTradeClosed: the counters, the record, the cache.
handleTradeClosed(deal) ==
    LET netProfit == deal.netProfitRaw \div PROFIT_DIVISOR
    IN  /\ wins' = IF netProfit > 0 THEN wins + 1 ELSE wins
        /\ losses' = IF netProfit > 0 THEN losses ELSE losses + 1
        /\ trades' = unshiftCapped(trades, [id |-> deal.positionId,
                                            profit |-> netProfit,
                                            no |-> wins + losses + 1])
        /\ positions' = positions \ {deal.positionId}

\* handleExecutionEvent on a closing fill (executionType 3 with a deal that
\* has a closePositionDetail): handleTradeClosed and its save.
closingFill(deal, saveOk) ==
    /\ deal \in Deals
    /\ handleTradeClosed(deal)
    /\ saveState(saveOk, todayTradeDone, lastResetDate)
    /\ sent' = <<>>
    /\ emitted' = "none"
    /\ UNCHANGED <<todayTradeDone, todayOpenPrice, currentPrice, isWatching,
                   isPlacingOrder, orderFailureCount, entryOffset, pendingSlTp,
                   lastResetDate, lastBasePriceFetchAttempt, fetching,
                   retryTimers, placements, resetsLoading, reconciles, today,
                   openFillSeen, calendarVars, sessionResetDone,
                   fetchPredatesReset, connVars, botVars, orderVars, brokerVars, startVars, watchVars, saveVars, signalVars>>

\* Variant: a reconciliation that marks the trade done when the broker
\* returns positions.
reconcilePositions_MarksDone(ok, list, saveOk) ==
    /\ reconciles > 0
    /\ reconciles' = reconciles - 1
    /\ list \in SUBSET PositionIds
    /\ IF ok
       THEN /\ positions' = list
            /\ todayTradeDone' = (list # {} \/ todayTradeDone)
            /\ IF list # {}
               THEN saveState(saveOk, TRUE, lastResetDate)
               ELSE UNCHANGED dbState
       ELSE UNCHANGED <<todayTradeDone, positions, dbState>>
    /\ sent' = <<>>
    /\ emitted' = "none"
    /\ UNCHANGED <<todayOpenPrice, currentPrice, isWatching,
                   isPlacingOrder, orderFailureCount, entryOffset, pendingSlTp,
                   lastResetDate, lastBasePriceFetchAttempt, fetching, retryTimers,
                   placements, resetsLoading, today, calendarVars, connVars, botVars, ledgerVars, orderVars, brokerVars, startVars, watchVars, saveVars, signalVars, fetchPredatesReset, openFillSeen, sessionResetDone>>

\* Variant: a reconciliation that empties the cache when its request fails.
reconciled_ClearsOnFailure(ok, list, saveOk) ==
    IF ok
    THEN /\ positions' = list
         /\ IF list # {}
            THEN /\ saveState(saveOk, todayTradeDone, lastResetDate)
                 /\ emitted' = "positions-reconciled"
            ELSE /\ emitted' = "none"
                 /\ UNCHANGED dbState
    ELSE /\ emitted' = "none"
         /\ positions' = {}
         /\ UNCHANGED dbState

\* reconcilePositions once getOpenPositions has settled: the request failed
\* (send threw, timed out) and the catch only logs, or the broker's list
\* replaces the cache and a non-empty list is saved.
reconciled(ok, list, saveOk) ==
    IF ok
    THEN /\ positions' = list
         /\ IF list # {}
            THEN /\ saveState(saveOk, todayTradeDone, lastResetDate)
                 /\ emitted' = "positions-reconciled"
            ELSE /\ emitted' = "none"
                 /\ UNCHANGED dbState
    ELSE /\ emitted' = "none"
         /\ UNCHANGED <<positions, dbState>>

\* reconcilePositions after getOpenPositions.
reconcilePositions(ok, list, saveOk) ==
    /\ reconciles > 0
    /\ reconciles' = reconciles - 1
    /\ list \in SUBSET PositionIds
    /\ reconciled(ok, list, saveOk)
    /\ sent' = <<>>
    /\ UNCHANGED <<todayTradeDone, todayOpenPrice, currentPrice, isWatching,
                   isPlacingOrder, orderFailureCount, entryOffset, pendingSlTp,
                   lastResetDate, lastBasePriceFetchAttempt, fetching, retryTimers,
                   placements, resetsLoading, today, calendarVars, connVars, botVars, ledgerVars, orderVars, brokerVars, startVars, watchVars, saveVars, signalVars, fetchPredatesReset, openFillSeen, sessionResetDone>>

\* The account-auth-success listener: subscribe to quotes, reconcile.
accountAuthSuccess ==
    /\ reconciles < MaxReconciles
    /\ reconciles' = reconciles + 1
    /\ sent' = <<>>
    /\ emitted' = "none"
    /\ UNCHANGED <<todayTradeDone, todayOpenPrice, currentPrice, isWatching,
                   isPlacingOrder, orderFailureCount, entryOffset, pendingSlTp,
                   positions, lastResetDate, lastBasePriceFetchAttempt, fetching,
                   retryTimers, placements, resetsLoading, dbState,
                   today, calendarVars, connVars, botVars, ledgerVars, orderVars, brokerVars, startVars, watchVars, saveVars, signalVars, fetchPredatesReset, openFillSeen, sessionResetDone>>

\* The assignments of resetDaily once it has decided to reset, with its save.
resetDailyClears(date, saveOk) ==
    /\ todayTradeDone' = FALSE
    /\ todayOpenPrice' = NoPrice
    /\ isWatching' = FALSE
    /\ isPlacingOrder' = FALSE
    /\ orderFailureCount' = 0
    /\ lastResetDate' = date
    /\ saveState(saveOk, FALSE, date)
    /\ openFillSeen' = FALSE
    /\ sessionResetDone' = TRUE
    /\ fetchPredatesReset' = isFetchingOpenPrice

\* resetDaily(force) up to its await: a forced call resets at once, any other
\* call computes todayStr and awaits loadState.
resetDaily(force, saveOk) ==
    /\ IF force
       THEN /\ resetDailyClears(todayStr, saveOk)
            /\ UNCHANGED resetsLoading
       ELSE /\ Len(resetsLoading) < MaxResetsLoading
            /\ resetsLoading' = Append(resetsLoading, todayStr)
            /\ UNCHANGED <<todayTradeDone, todayOpenPrice, isWatching, isPlacingOrder,
                           orderFailureCount, lastResetDate, dbState, openFillSeen, sessionResetDone,
                            fetchPredatesReset>>
    /\ sent' = <<>>
    /\ emitted' = "none"
    /\ UNCHANGED <<currentPrice, entryOffset, pendingSlTp, positions,
                   lastBasePriceFetchAttempt, fetching, retryTimers, placements,
                   reconciles, today, calendarVars, connVars, botVars, ledgerVars, orderVars, brokerVars, startVars, watchVars, saveVars, signalVars>>

\* resetDaily after loadState: loadState gives the stored snapshot, or null
\* when it is absent or the load failed.
resetDailyLoaded(i, loadOk, saveOk) ==
    /\ i \in 1..Len(resetsLoading)
    /\ resetsLoading' = RemoveAt(resetsLoading, i)
    /\ LET state == IF loadOk THEN dbState ELSE <<>>
       IN  IF state # <<>> /\ state[1].lastResetDate = resetsLoading[i]
           THEN UNCHANGED <<todayTradeDone, todayOpenPrice, isWatching,
                            isPlacingOrder, orderFailureCount, lastResetDate,
                            dbState, openFillSeen, sessionResetDone,
                            fetchPredatesReset>>
           ELSE resetDailyClears(resetsLoading[i], saveOk)
    /\ sent' = <<>>
    /\ emitted' = "none"
    /\ UNCHANGED <<currentPrice, entryOffset, pendingSlTp, positions,
                   lastBasePriceFetchAttempt, fetching, retryTimers, placements,
                   reconciles, today, calendarVars, connVars, botVars, ledgerVars, orderVars, brokerVars, startVars, watchVars, saveVars, signalVars>>

\* startWatching up to its await: returns when already watching or done,
\* starts a baseline fetch when there is no baseline, else enables watching.
startWatchingCalled ==
    /\ IF isWatching \/ todayTradeDone
       THEN UNCHANGED <<isWatching, todayOpenPrice, fetching, fetchPredatesReset>>
       ELSE IF todayOpenPrice = NoPrice
       THEN LET f == fetchStart(TRUE, 0)
            IN  /\ todayOpenPrice' = f.openPrice
                /\ fetching' = f.fetching
                /\ fetchPredatesReset' = (isFetchingOpenPrice /\ fetchPredatesReset)
                /\ UNCHANGED isWatching
       ELSE /\ isWatching' = TRUE
            /\ UNCHANGED <<todayOpenPrice, fetching, fetchPredatesReset>>
    /\ sent' = <<>>
    /\ emitted' = "none"
    /\ UNCHANGED <<todayTradeDone, currentPrice, isPlacingOrder, orderFailureCount,
                   entryOffset, pendingSlTp, positions, lastResetDate,
                   lastBasePriceFetchAttempt, retryTimers, placements,
                   resetsLoading, reconciles, dbState, today, calendarVars, connVars, botVars, ledgerVars, orderVars, brokerVars, startVars, saveVars, signalVars,
                   openFillSeen, sessionResetDone>>

\* startWatching, the history of its calls aside.
startWatching ==
    /\ startWatchingCalled
    /\ UNCHANGED watchVars

\* checkTime at the watch time: startWatching is called once. The call that
\* passes the first guard without baseline while a fetch holds the guard is
\* the one watchAsked records.
watchTime ==
    /\ startWatchingCalled
    /\ watchAsked' = IF /\ ~(isWatching \/ todayTradeDone)
                        /\ todayOpenPrice = NoPrice
                        /\ isFetchingOpenPrice
                     THEN TRUE
                     ELSE watchAsked

\* fetchAndSetOpenPrice after its awaits. status "closed": checkMarketStatus
\* says the market is not open; "price": fetchDailyOpenPrice found the target
\* bar; "none": it gave null (no bar, request error or timeout). The caller
\* startWatching resumes in the same turn.
fetchSettles(status, price) ==
    /\ fetching # <<>>
    /\ status \in {"closed", "price", "none"}
    /\ fetching' = <<>>
    /\ fetchPredatesReset' = FALSE
    /\ IF status = "price"
       THEN /\ todayOpenPrice' = price
            /\ isWatching' = (fetching[1].watch \/ isWatching)
            /\ UNCHANGED retryTimers
       ELSE IF status = "none" /\ fetching[1].retryCount < MAX_RETRIES
       THEN /\ retryTimers < MaxRetryTimers
            /\ retryTimers' = retryTimers + 1
            /\ UNCHANGED <<todayOpenPrice, isWatching>>
       ELSE UNCHANGED <<todayOpenPrice, isWatching, retryTimers>>
    /\ emitted' = "none"
    /\ sent' = <<>>
    /\ UNCHANGED <<todayTradeDone, currentPrice, isPlacingOrder, orderFailureCount,
                   entryOffset, pendingSlTp, positions, lastResetDate,
                   lastBasePriceFetchAttempt, placements, resetsLoading, reconciles,
                   dbState, today, calendarVars, connVars, botVars, ledgerVars, orderVars, brokerVars, startVars, saveVars, signalVars, openFillSeen, sessionResetDone>>

\* fetchAndSetOpenPrice after its awaits, with a price of the set Baselines.
fetchAndSetOpenPrice(status, price) ==
    /\ price \in Baselines
    /\ fetchSettles(status, price)
    /\ UNCHANGED watchVars

\* fetchAndSetOpenPrice after its awaits: the fetch that a watch-time call
\* met has settled.
fetchEnds(status, price) ==
    /\ price \in Baselines
    /\ fetchSettles(status, price)
    /\ watchAsked' = FALSE

\* The M1 bars a ProtoOAGetTrendbarsRes can carry around the target minute.
Trendbars ==
    [utcTimestampInMinutes : {TargetMinute - 1, TargetMinute},
     low : {BarLow}, deltaOpen : {0, BarDelta}]

TrendbarLists == UNION {[1..n -> Trendbars] : n \in 0..MaxBars}

RECURSIVE find(_, _)
\* Array.prototype.find with the test bar.utcTimestampInMinutes === minute:
\* the first such bar in a one-element sequence, or <<>>.
find(trendbar, minute) ==
    IF trendbar = <<>> THEN <<>>
    ELSE IF Head(trendbar).utcTimestampInMinutes = minute THEN <<Head(trendbar)>>
    ELSE find(Tail(trendbar), minute)

\* Variant: a fetch that falls back on the first bar of the answer.
fetchDailyOpenPrice_AnyBar(requestOk, trendbar) ==
    IF ~requestOk \/ trendbar = <<>> THEN NoPrice
    ELSE LET targetBar == find(trendbar, TargetMinute)
             bar == IF targetBar = <<>> THEN trendbar[1] ELSE targetBar[1]
         IN  bar.low + bar.deltaOpen

\* fetchDailyOpenPrice: null when the request fails or no bar has the target
\* minute, else that bar's low + deltaOpen.
fetchDailyOpenPrice(requestOk, trendbar) ==
    IF ~requestOk \/ trendbar = <<>> THEN NoPrice
    ELSE LET targetBar == find(trendbar, TargetMinute)
         IN  IF targetBar = <<>> THEN NoPrice
             ELSE targetBar[1].low + targetBar[1].deltaOpen

\* fetchAndSetOpenPrice after its awaits, from what checkMarketStatus and
\* the trendbar request gave.
fetchAndSetOpenPriceBars(isOpen, requestOk, trendbar) ==
    LET price == fetchDailyOpenPrice(requestOk, trendbar)
    IN  /\ trendbar \in TrendbarLists
        /\ fetchSettles(IF ~isOpen THEN "closed"
                        ELSE IF price # NoPrice THEN "price" ELSE "none",
                        price)
        /\ UNCHANGED watchVars

\* The retry timer set by fetchAndSetOpenPrice fires: fetchAndSetOpenPrice(1).
fetchRetry ==
    /\ retryTimers > 0
    /\ retryTimers' = retryTimers - 1
    /\ LET f == fetchStart(FALSE, 1)
       IN  /\ todayOpenPrice' = f.openPrice
           /\ fetching' = f.fetching
           /\ fetchPredatesReset' = (isFetchingOpenPrice /\ fetchPredatesReset)
    /\ sent' = <<>>
    /\ emitted' = "none"
    /\ UNCHANGED <<todayTradeDone, currentPrice, isWatching, isPlacingOrder,
                   orderFailureCount, entryOffset, pendingSlTp, positions,
                   lastResetDate, lastBasePriceFetchAttempt, placements,
                   resetsLoading, reconciles, dbState, today, calendarVars, connVars, botVars, ledgerVars, orderVars, brokerVars, startVars, watchVars, saveVars, signalVars,
                   openFillSeen, sessionResetDone>>

\* POST /api/action toggleWatch.
toggleWatch ==
    /\ isWatching' = ~isWatching
    /\ sent' = <<>>
    /\ emitted' = "none"
    /\ UNCHANGED <<todayTradeDone, todayOpenPrice, currentPrice, isPlacingOrder,
                   orderFailureCount, entryOffset, pendingSlTp, positions,
                   lastResetDate, lastBasePriceFetchAttempt, fetching, retryTimers,
                   placements, resetsLoading, reconciles, dbState,
                   today, calendarVars, connVars, botVars, ledgerVars, orderVars, brokerVars, startVars, watchVars, saveVars, signalVars, fetchPredatesReset, openFillSeen, sessionResetDone>>

\* updateConfig with an entryOffset, and its save.
updateConfig(offset, saveOk) ==
    /\ offset \in Offsets
    /\ entryOffset' = offset
    /\ saveState(saveOk, todayTradeDone, lastResetDate)
    /\ sent' = <<>>
    /\ emitted' = "none"
    /\ UNCHANGED <<todayTradeDone, todayOpenPrice, currentPrice, isWatching,
                   isPlacingOrder, orderFailureCount, pendingSlTp, positions,
                   lastResetDate, lastBasePriceFetchAttempt, fetching, retryTimers,
                   placements, resetsLoading, reconciles, today, calendarVars, connVars, botVars, ledgerVars, orderVars, brokerVars, startVars, watchVars, saveVars, signalVars, fetchPredatesReset,
                   openFillSeen, sessionResetDone>>

\* POST /api/action updateConfig with an entryOffset: updateConfig sets the
\* field and calls saveState without awaiting it, so the snapshot is built
\* and its write begins; the handler then answers success in the same turn.
apiUpdateConfig(offset) ==
    /\ offset \in Offsets
    /\ entryOffset' = offset
    /\ configSaves' = Append(configSaves, [todayTradeDone |-> todayTradeDone,
                                           lastResetDate |-> lastResetDate])
    /\ apiReply' = "success"
    /\ sent' = <<>>
    /\ emitted' = "none"
    /\ UNCHANGED <<todayTradeDone, todayOpenPrice, currentPrice, isWatching,
                   isPlacingOrder, orderFailureCount, pendingSlTp, positions,
                   lastResetDate, lastBasePriceFetchAttempt, fetching, retryTimers,
                   placements, resetsLoading, reconciles, dbState, today,
                   calendarVars, connVars, ledgerVars, orderVars, brokerVars, startVars, watchVars, saveVars, signalVars, subscribeSent, fetchPredatesReset,
                   openFillSeen, sessionResetDone>>

\* The write of a snapshot begun by updateConfig ends: the store takes it,
\* or the write fails and saveState's catch logs the error.
configSaveEnds(i, ok) ==
    /\ i \in 1..Len(configSaves)
    /\ configSaves' = RemoveAt(configSaves, i)
    /\ dbState' = IF ok THEN <<configSaves[i]>> ELSE dbState
    /\ sent' = <<>>
    /\ emitted' = "none"
    /\ UNCHANGED <<todayTradeDone, todayOpenPrice, currentPrice, isWatching,
                   isPlacingOrder, orderFailureCount, entryOffset, pendingSlTp,
                   positions, lastResetDate, lastBasePriceFetchAttempt, fetching,
                   retryTimers, placements, resetsLoading, reconciles, today,
                   calendarVars, connVars, ledgerVars, orderVars, brokerVars, startVars, watchVars, saveVars, signalVars, subscribeSent, apiReply,
                   fetchPredatesReset, openFillSeen, sessionResetDone>>

\* The wall clock (Asia/Taipei) reaches the market's open hour: a trading
\* session begins, to last until the next open.
marketOpens ==
    /\ ~afterOpen
    /\ afterOpen' = TRUE
    /\ sessionResetDone' = FALSE
    /\ sent' = <<>>
    /\ emitted' = "none"
    /\ UNCHANGED <<todayTradeDone, todayOpenPrice, currentPrice, isWatching,
                   isPlacingOrder, orderFailureCount, entryOffset, pendingSlTp,
                   positions, lastResetDate, lastBasePriceFetchAttempt, fetching,
                   retryTimers, placements, resetsLoading, reconciles, dbState,
                   today, openFillSeen, botLastResetDate, fetchPredatesReset,
                   connVars, botVars, ledgerVars, orderVars, brokerVars, startVars, watchVars, saveVars, signalVars>>

\* The wall clock passes local midnight: the date string changes, the hour is
\* before the open hour again.
midnight ==
    /\ afterOpen
    /\ today < MaxDay
    /\ today' = today + 1
    /\ afterOpen' = FALSE
    /\ sent' = <<>>
    /\ emitted' = "none"
    /\ UNCHANGED <<todayTradeDone, todayOpenPrice, currentPrice, isWatching,
                   isPlacingOrder, orderFailureCount, entryOffset, pendingSlTp,
                   positions, lastResetDate, lastBasePriceFetchAttempt, fetching,
                   retryTimers, placements, resetsLoading, reconciles, dbState,
                   openFillSeen, botLastResetDate, sessionResetDone,
                   fetchPredatesReset, connVars, botVars, ledgerVars, orderVars, brokerVars, startVars, watchVars, saveVars, signalVars>>

\* checkTime on a weekday, below its watchdog (which acts on the connection):
\* at or after the open the bot calls resetDaily once per date string, and at
\* or after the watch time (isAfterWatchTime) it calls startWatching while
\* the engine neither watches nor has traded. Both calls run to their first
\* await.
checkTime(isAfterWatchTime) ==
    LET resets == afterOpen /\ botLastResetDate # today
        watches == isAfterWatchTime /\ ~todayTradeDone /\ ~isWatching
        f == IF watches /\ todayOpenPrice = NoPrice
             THEN fetchStart(TRUE, 0)
             ELSE [openPrice |-> todayOpenPrice, fetching |-> fetching]
    IN  /\ isAfterWatchTime => afterOpen
        /\ resets => Len(resetsLoading) < MaxResetsLoading
        /\ resetsLoading' = IF resets THEN Append(resetsLoading, todayStr)
                            ELSE resetsLoading
        /\ botLastResetDate' = IF resets THEN today ELSE botLastResetDate
        /\ todayOpenPrice' = f.openPrice
        /\ fetching' = f.fetching
        /\ fetchPredatesReset' =
              IF watches /\ todayOpenPrice = NoPrice /\ ~isFetchingOpenPrice
              THEN FALSE ELSE fetchPredatesReset
        /\ isWatching' = ((watches /\ todayOpenPrice # NoPrice) \/ isWatching)
        /\ sent' = <<>>
        /\ emitted' = "none"
        /\ UNCHANGED <<todayTradeDone, currentPrice, isPlacingOrder,
                       orderFailureCount, entryOffset, pendingSlTp, positions,
                       lastResetDate, lastBasePriceFetchAttempt, retryTimers,
                       placements, reconciles, dbState, today, openFillSeen,
                       afterOpen, sessionResetDone, connVars, botVars, ledgerVars, orderVars, brokerVars, startVars, watchVars, saveVars, signalVars>>

\* ---------------------------------------------------------------- framing

\* Buffer.writeUInt32BE: the four bytes of n, most significant first.
writeUInt32BE(n) ==
    <<n \div 16777216, (n \div 65536) % 256, (n \div 256) % 256, n % 256>>

\* Buffer.readUInt32BE at the 0-based offset.
readUInt32BE(buf, offset) ==
    ((buf[offset + 1] * 256 + buf[offset + 2]) * 256 + buf[offset + 3]) * 256
       + buf[offset + 4]

\* The packet send builds for a payload: length prefix, then the payload.
packet(payload) == writeUInt32BE(Len(payload)) \o payload

RECURSIVE packets(_)
\* The bytes of a sequence of payloads, each framed, in order.
packets(ps) == IF ps = <<>> THEN <<>> ELSE packet(Head(ps)) \o packets(Tail(ps))

RECURSIVE readFrames_KeepsNoPartial(_, _)
\* Variant: a loop that counts an incomplete frame's bytes as consumed.
readFrames_KeepsNoPartial(buf, offset) ==
    IF Len(buf) - offset < 4 THEN [out |-> <<>>, offset |-> Len(buf)]
    ELSE LET messageLength == readUInt32BE(buf, offset)
         IN  IF Len(buf) - offset < 4 + messageLength
             THEN [out |-> <<>>, offset |-> Len(buf)]
             ELSE LET rest == readFrames_KeepsNoPartial(buf, offset + 4 + messageLength)
                  IN  [out |-> <<SubSeq(buf, offset + 5, offset + 4 + messageLength)>>
                                  \o rest.out,
                       offset |-> rest.offset]

RECURSIVE readFrames(_, _)
\* The while loop of handleIncomingData from offset on: the messageBytes of
\* every complete frame, and the offset the loop stops at.
readFrames(buf, offset) ==
    IF Len(buf) - offset < 4 THEN [out |-> <<>>, offset |-> offset]
    ELSE LET messageLength == readUInt32BE(buf, offset)
         IN  IF Len(buf) - offset < 4 + messageLength
             THEN [out |-> <<>>, offset |-> offset]
             ELSE LET rest == readFrames(buf, offset + 4 + messageLength)
                  IN  [out |-> <<SubSeq(buf, offset + 5, offset + 4 + messageLength)>>
                                  \o rest.out,
                       offset |-> rest.offset]

\* The frames on which neither decode nor handleMessage throws.
Handled(fs) == SelectSeq(fs, LAMBDA f : f \notin throwing)

RECURSIVE UntilThrow(_)
\* The frames before the first one that throws.
UntilThrow(fs) ==
    IF fs = <<>> \/ Head(fs) \in throwing THEN <<>>
    ELSE <<Head(fs)>> \o UntilThrow(Tail(fs))

\* Variant: no try/catch inside the loop, so the exception of a frame leaves
\* handleIncomingData for the catch of the 'data' listener, before the
\* frames after it are read and before the buffer is cut.
handleIncomingData_ThrowLeavesLoop(data) ==
    LET buf == incomingBuffer \o data
        r == readFrames(buf, 0)
        done == UntilThrow(r.out)
        thrown == Len(done) < Len(r.out)
    IN  /\ frames' = frames \o (IF thrown THEN SubSeq(r.out, 1, Len(done) + 1)
                                 ELSE r.out)
        /\ handled' = handled \o done
        /\ incomingBuffer' = IF r.offset > 0 /\ ~thrown
                             THEN SubSeq(buf, r.offset + 1, Len(buf))
                             ELSE buf

\* handleIncomingData on the bytes of one 'data' event: append, take the
\* complete frames out, decode and handle each inside its own try/catch,
\* keep the rest.
handleIncomingData(data) ==
    LET buf == incomingBuffer \o data
        r == readFrames(buf, 0)
    IN  /\ frames' = frames \o r.out
        /\ handled' = handled \o Handled(r.out)
        /\ incomingBuffer' = IF r.offset > 0
                             THEN SubSeq(buf, r.offset + 1, Len(buf))
                             ELSE buf

\* A 'data' event of the socket with the next n bytes of the stream.
socketData(n) ==
    /\ n \in 1..Len(wire)
    /\ handleIncomingData(SubSeq(wire, 1, n))
    /\ wire' = SubSeq(wire, n + 1, Len(wire))
    /\ sent' = <<>>
    /\ emitted' = "none"
    /\ UNCHANGED <<todayTradeDone, todayOpenPrice, currentPrice, isWatching,
                   isPlacingOrder, orderFailureCount, entryOffset, pendingSlTp,
                   positions, lastResetDate, lastBasePriceFetchAttempt, fetching,
                   retryTimers, placements, resetsLoading, reconciles, dbState,
                   today, openFillSeen, calendarVars, sessionResetDone,
                   fetchPredatesReset, strayVars, botVars, ledgerVars, orderVars, brokerVars, startVars, watchVars, saveVars, signalVars, connected,
                   authenticated, payloads, throwing, socket,
                   destroyed, reconnectAttempts, reconnectTimeout,
                   heartbeatInterval, heartbeatStale, pendingRequests,
                   nextClientMsgId, unsettled, socketNo, firstIdOnSocket,
                   delivered, reconnectFailed, attemptsSinceReady>>

\* ------------------------------------------------------------- connection

\* Map.set: the entry replaces an entry under the same key.
SetEntry(table, entry) == {r \in table : r.id # entry.id} \cup {entry}

PendingIds == {r.id : r \in pendingRequests}

\* tls.connect in connect(): this.socket is a new socket that is connecting.
\* TradingBot.init calls connect() once, before any socket exists.
connectAtStart ==
    /\ socket = "null"
    /\ socketNo = 0
    /\ reconnectTimeout = "null"
    /\ socket' = "connecting"
    /\ UNCHANGED <<engineVars, framingVars, botVars, ledgerVars, orderVars, brokerVars, startVars, watchVars, saveVars, signalVars, strayVars, connected, authenticated, destroyed,
                   reconnectAttempts, reconnectTimeout, heartbeatInterval,
                   heartbeatStale, pendingRequests, nextClientMsgId, unsettled,
                   socketNo, firstIdOnSocket, delivered, reconnectFailed,
                   attemptsSinceReady>>

\* Variant: a connection that numbers its requests from 1 on every socket.
socketOpens_RestartsIds ==
    /\ socket = "connecting"
    /\ socket' = "open"
    /\ connected' = TRUE
    /\ reconnectAttempts' = 0
    /\ socketNo' = socketNo + 1
    /\ firstIdOnSocket' = 1
    /\ pendingRequests' = SetEntry(pendingRequests,
                             [id |-> 1, type |-> "ProtoOAApplicationAuthReq",
                              socketNo |-> socketNo + 1])
    /\ nextClientMsgId' = 2
    /\ unsettled' = unsettled \cup {1}
    /\ UNCHANGED <<engineVars, framingVars, botVars, ledgerVars, orderVars, brokerVars, startVars, watchVars, saveVars, signalVars, strayVars, authenticated, destroyed,
                   reconnectTimeout, heartbeatInterval, heartbeatStale, delivered,
                   reconnectFailed, attemptsSinceReady>>

\* The callback of tls.connect: the socket is open, the attempt counter is
\* zeroed and sendApplicationAuth sends the first request of the socket.
socketOpens ==
    /\ socket = "connecting"
    /\ socket' = "open"
    /\ connected' = TRUE
    /\ reconnectAttempts' = 0
    /\ socketNo' = socketNo + 1
    /\ firstIdOnSocket' = nextClientMsgId
    /\ pendingRequests' = SetEntry(pendingRequests,
                             [id |-> nextClientMsgId,
                              type |-> "ProtoOAApplicationAuthReq",
                              socketNo |-> socketNo + 1])
    /\ nextClientMsgId' = nextClientMsgId + 1
    /\ unsettled' = unsettled \cup {nextClientMsgId}
    /\ UNCHANGED <<engineVars, framingVars, botVars, ledgerVars, orderVars, brokerVars, startVars, watchVars, saveVars, signalVars, strayVars, authenticated, destroyed,
                   reconnectTimeout, heartbeatInterval, heartbeatStale, delivered,
                   reconnectFailed, attemptsSinceReady>>

\* Variant: a delay without the cap.
backoffDelay_Uncapped(attempts) == reconnectDelay * 2^attempts

\* Math.min(reconnectDelay * Math.pow(2, attempts), MAX_RECONNECT_DELAY_MS)
backoffDelay(attempts) ==
    LET d == reconnectDelay * 2^attempts
    IN  IF d < MAX_RECONNECT_DELAY_MS THEN d ELSE MAX_RECONNECT_DELAY_MS

\* Variant: gives up one disconnection later.
scheduleReconnect_GivesUpLate ==
    IF reconnectAttempts > maxReconnectAttempts
    THEN /\ reconnectFailed' = TRUE
         /\ UNCHANGED <<reconnectAttempts, reconnectTimeout, strayTimers, delay>>
    ELSE /\ delay' = backoffDelay(reconnectAttempts)
         /\ reconnectAttempts' = reconnectAttempts + 1
         /\ strayTimers' = IF reconnectTimeout = "armed"
                           THEN strayTimers + 1 ELSE strayTimers
         /\ reconnectTimeout' = "armed"
         /\ UNCHANGED reconnectFailed

\* scheduleReconnect: gives up at maxReconnectAttempts, else computes the
\* delay from the counter, counts the attempt and sets the timer. The field
\* takes the new timer; a timer it held that has not fired stays armed.
scheduleReconnect ==
    IF reconnectAttempts >= maxReconnectAttempts
    THEN /\ reconnectFailed' = TRUE
         /\ UNCHANGED <<reconnectAttempts, reconnectTimeout, strayTimers, delay>>
    ELSE /\ delay' = backoffDelay(reconnectAttempts)
         /\ reconnectAttempts' = reconnectAttempts + 1
         /\ strayTimers' = IF reconnectTimeout = "armed"
                           THEN strayTimers + 1 ELSE strayTimers
         /\ reconnectTimeout' = "armed"
         /\ UNCHANGED reconnectFailed

\* The 'close' listener connect() puts on every socket.
closeListener ==
    /\ connected' = FALSE
    /\ authenticated' = FALSE
    /\ heartbeatInterval' = FALSE
    /\ scheduleReconnect

\* 'close' of this.socket: the attempt failed, or the peer or the network
\* closed the open socket.
socketClose ==
    /\ socket \in {"connecting", "open"}
    /\ socket' = "closed"
    /\ closeListener
    /\ UNCHANGED <<engineVars, framingVars, botVars, ledgerVars, orderVars, brokerVars, startVars, watchVars, saveVars, signalVars, orphaned, destroyed, heartbeatStale,
                   pendingRequests, nextClientMsgId, unsettled, socketNo,
                   firstIdOnSocket, delivered, attemptsSinceReady>>

\* 'close' of a socket that disconnect() destroyed.
destroyedSocketClose ==
    /\ destroyed > 0
    /\ destroyed' = destroyed - 1
    /\ closeListener
    /\ UNCHANGED <<engineVars, framingVars, botVars, ledgerVars, orderVars, brokerVars, startVars, watchVars, saveVars, signalVars, orphaned, socket, heartbeatStale,
                   pendingRequests, nextClientMsgId, unsettled, socketNo,
                   firstIdOnSocket, delivered, attemptsSinceReady>>

\* connect(): this.socket takes a new socket; the socket it held, if still
\* connecting or open, lives on with its listeners.
connect ==
    /\ socket' = "connecting"
    /\ orphaned' = IF socket \in {"connecting", "open"} THEN orphaned + 1 ELSE orphaned

\* The reconnect timer fires: connect(). The field keeps the timer object.
reconnectTimerFires ==
    /\ reconnectTimeout = "armed"
    /\ reconnectTimeout' = "fired"
    /\ connect
    /\ attemptsSinceReady' = attemptsSinceReady + 1
    /\ UNCHANGED <<engineVars, framingVars, botVars, ledgerVars, orderVars, brokerVars, startVars, watchVars, saveVars, signalVars, strayTimers, delay, connected, authenticated, destroyed,
                   reconnectAttempts, heartbeatInterval, heartbeatStale,
                   pendingRequests, nextClientMsgId, unsettled, socketNo,
                   firstIdOnSocket, delivered, reconnectFailed>>

\* A reconnect timer the field no longer references fires: connect().
strayTimerFires ==
    /\ strayTimers > 0
    /\ strayTimers' = strayTimers - 1
    /\ connect
    /\ attemptsSinceReady' = attemptsSinceReady + 1
    /\ UNCHANGED <<engineVars, framingVars, botVars, ledgerVars, orderVars, brokerVars, startVars, watchVars, saveVars, signalVars, delay, connected, authenticated,
                   destroyed, reconnectAttempts, reconnectTimeout,
                   heartbeatInterval, heartbeatStale, pendingRequests,
                   nextClientMsgId, unsettled, socketNo, firstIdOnSocket,
                   delivered, reconnectFailed>>

\* 'close' of a socket that a later connect() replaced in this.socket: its
\* listener is the same one.
orphanClose ==
    /\ orphaned > 0
    /\ orphaned' = orphaned - 1
    /\ closeListener
    /\ UNCHANGED <<engineVars, framingVars, botVars, ledgerVars, orderVars, brokerVars, startVars, watchVars, saveVars, signalVars, socket, destroyed, heartbeatStale,
                   pendingRequests, nextClientMsgId, unsettled, socketNo,
                   firstIdOnSocket, delivered, attemptsSinceReady>>

\* The connection watchdog at the top of checkTime, once a minute after
\* start(): connect() when the connection is not connected and the timer
\* field is null; nothing otherwise.
watchdog ==
    /\ socketNo >= 1
    /\ ~connected /\ reconnectTimeout = "null"
    /\ connect
    /\ UNCHANGED <<engineVars, framingVars, botVars, ledgerVars, orderVars, brokerVars, startVars, watchVars, saveVars, signalVars, strayTimers, delay, connected,
                   authenticated, destroyed, reconnectAttempts, reconnectTimeout,
                   heartbeatInterval, heartbeatStale, pendingRequests,
                   nextClientMsgId, unsettled, socketNo, firstIdOnSocket,
                   delivered, reconnectFailed, attemptsSinceReady>>

\* Variant: the response settles the oldest pending request.
settledBy_Oldest(m) ==
    {r \in pendingRequests : m.clientMsgId # 0 /\ \A q \in pendingRequests : r.id <= q.id}

\* The entries of pendingRequests that handleMessage resolves with message m.
settledBy(m) ==
    {r \in pendingRequests : m.clientMsgId # 0 /\ r.id = m.clientMsgId}

\* handleMessage on a decoded message of the open socket, with the listeners
\* it calls: the bot's, which sends the account auth on app-auth-success, and
\* the continuation of connect(), which starts the heartbeat once the
\* application auth request is resolved. The engine's listeners send their
\* requests through send. The peer echoes only ids of requests it received
\* on this socket.
socketMessage(m) ==
    LET hit == settledBy(m)
        isAppAuth == m.payloadType = "ProtoOAApplicationAuthRes"
        isAccountAuth == m.payloadType = "ProtoOAAccountAuthRes"
        accountAuthReq == [id |-> nextClientMsgId, type |-> "ProtoOAAccountAuthReq",
                           socketNo |-> socketNo]
    IN  /\ socket = "open"
        /\ m \in Messages
        /\ m.clientMsgId = 0 \/ m.clientMsgId \in firstIdOnSocket..(nextClientMsgId - 1)
        /\ heartbeatStale' = FALSE
        /\ pendingRequests' = IF isAppAuth
                              THEN SetEntry(pendingRequests \ hit, accountAuthReq)
                              ELSE pendingRequests \ hit
        /\ nextClientMsgId' = IF isAppAuth THEN nextClientMsgId + 1 ELSE nextClientMsgId
        /\ unsettled' = (unsettled \ {r.id : r \in hit})
                           \cup (IF isAppAuth THEN {nextClientMsgId} ELSE {})
        /\ authenticated' = (isAccountAuth \/ authenticated)
        /\ attemptsSinceReady' = IF isAccountAuth THEN 0 ELSE attemptsSinceReady
        /\ heartbeatInterval' =
              ((\E r \in hit : r.type = "ProtoOAApplicationAuthReq") \/ heartbeatInterval)
        /\ delivered' = <<m>>
        /\ UNCHANGED <<engineVars, framingVars, botVars, ledgerVars, orderVars, brokerVars, startVars, watchVars, saveVars, signalVars, strayVars, connected, socket, destroyed,
                       reconnectAttempts, reconnectTimeout, socketNo,
                       firstIdOnSocket, reconnectFailed>>

\* The responses of the peer to the requests of the bot.
BotResponses == {"ProtoOAApplicationAuthRes", "ProtoOAAccountAuthRes",
                 "ProtoOASymbolsListRes", "ProtoOAReconcileRes",
                 "ProtoOASubscribeSpotsRes"}

responseTo(type) ==
    CASE type = "ProtoOAApplicationAuthReq" -> "ProtoOAApplicationAuthRes"
      [] type = "ProtoOAAccountAuthReq" -> "ProtoOAAccountAuthRes"
      [] type = "ProtoOASymbolsListReq" -> "ProtoOASymbolsListRes"
      [] type = "ProtoOAReconcileReq" -> "ProtoOAReconcileRes"
      [] OTHER -> "ProtoOASubscribeSpotsRes"

\* handleMessage in the running bot, on the peer's response m to a request
\* of the open socket, with all its listeners and the continuations of the
\* request it resolves. The bot's listener sends the account auth on
\* app-auth-success. The engine's listener on account-auth-success calls
\* subscribeToMarketData, which sends the symbol lookup unless the symbol is
\* cached, then reconcilePositions, which sends the reconcile request; the
\* subscription is sent in a continuation, at once when the symbol was
\* cached, else when the lookup is answered with the symbol. The answer
\* to a reconcile request resumes reconcilePositions.
messageHandled(m, cached, symbolFound, ok, list) ==
    LET hit == settledBy(m)
        isAppAuth == m.payloadType = "ProtoOAApplicationAuthRes"
        isAccountAuth == m.payloadType = "ProtoOAAccountAuthRes"
        lookupDone == \E r \in hit : r.type = "ProtoOASymbolsListReq"
        reconcileDone == \E r \in hit : r.type = "ProtoOAReconcileReq"
        types == (IF isAppAuth THEN <<"ProtoOAAccountAuthReq">> ELSE <<>>)
                 \o (IF ~isAccountAuth THEN <<>>
                     ELSE IF cached
                     THEN <<"ProtoOAReconcileReq", "ProtoOASubscribeSpotsReq">>
                     ELSE <<"ProtoOASymbolsListReq", "ProtoOAReconcileReq">>)
                 \o (IF lookupDone /\ symbolFound
                     THEN <<"ProtoOASubscribeSpotsReq">> ELSE <<>>)
        requests == {[id |-> nextClientMsgId + i - 1, type |-> types[i],
                      socketNo |-> socketNo] : i \in 1..Len(types)}
    IN  /\ socket = "open" /\ connected
        /\ m.payloadType \in BotResponses
        /\ \E r \in pendingRequests :
              /\ r.socketNo = socketNo /\ r.id = m.clientMsgId
              /\ m.payloadType = responseTo(r.type)
        /\ list \in SUBSET PositionIds
        /\ heartbeatStale' = FALSE
        /\ pendingRequests' = (pendingRequests \ hit) \cup requests
        /\ nextClientMsgId' = nextClientMsgId + Len(types)
        /\ unsettled' = (unsettled \ {r.id : r \in hit}) \cup {r.id : r \in requests}
        /\ authenticated' = (isAccountAuth \/ authenticated)
        /\ attemptsSinceReady' = IF isAccountAuth THEN 0 ELSE attemptsSinceReady
        /\ heartbeatInterval' =
              ((\E r \in hit : r.type = "ProtoOAApplicationAuthReq") \/ heartbeatInterval)
        /\ delivered' = <<m>>
        /\ sent' = <<>>
        /\ subscribeSent' =
              IF \E r \in requests : r.type = "ProtoOASubscribeSpotsReq" THEN TRUE
              ELSE IF isAccountAuth THEN FALSE ELSE subscribeSent
        /\ IF reconcileDone THEN reconciled(ok, list, TRUE)
           ELSE /\ emitted' = "none"
                /\ UNCHANGED <<positions, dbState>>
        /\ UNCHANGED <<todayTradeDone, todayOpenPrice, currentPrice, isWatching,
                       isPlacingOrder, orderFailureCount, entryOffset, pendingSlTp,
                       lastResetDate, lastBasePriceFetchAttempt, fetching,
                       retryTimers, placements, resetsLoading, reconciles, today,
                       openFillSeen, calendarVars, sessionResetDone,
                       fetchPredatesReset, framingVars, strayVars, ledgerVars, orderVars, brokerVars, watchVars, saveVars, signalVars, configSaves,
                       apiReply, connected, socket, destroyed, reconnectAttempts,
                       reconnectTimeout, socketNo, firstIdOnSocket,
                       reconnectFailed>>

\* handleMessage in the running bot, the start of the bot aside.
botMessage(m, cached, symbolFound, ok, list) ==
    /\ messageHandled(m, cached, symbolFound, ok, list)
    /\ UNCHANGED startVars

\* handleMessage while the bot starts: the answer to the first socket's
\* application auth resolves connect(), and init goes on to construct the
\* engine and to call its initialize, which awaits loadState.
startupMessage(m, cached, symbolFound, ok, list) ==
    /\ messageHandled(m, cached, symbolFound, ok, list)
    /\ initStep' = IF /\ initStep = "connect"
                      /\ \E r \in settledBy(m) :
                            r.type = "ProtoOAApplicationAuthReq" /\ r.socketNo = 1
                   THEN "load"
                   ELSE initStep

\* initialize after loadState (which returns null on failure): it calls
\* reconcilePositions, whose send throws into its own catch when the socket
\* is down and otherwise sends the request.
initializeReconciles ==
    /\ initStep = "load"
    /\ initStep' = "done"
    /\ IF socket # "null" /\ connected
       THEN /\ pendingRequests' = SetEntry(pendingRequests,
                                     [id |-> nextClientMsgId,
                                      type |-> "ProtoOAReconcileReq",
                                      socketNo |-> socketNo])
            /\ nextClientMsgId' = nextClientMsgId + 1
            /\ unsettled' = unsettled \cup {nextClientMsgId}
            /\ sent' = <<Request("ProtoOAReconcileReq", NoId, <<>>, NoVolume)>>
       ELSE /\ sent' = <<>>
            /\ UNCHANGED <<pendingRequests, nextClientMsgId, unsettled>>
    /\ emitted' = "none"
    /\ UNCHANGED <<todayTradeDone, todayOpenPrice, currentPrice, isWatching,
                   isPlacingOrder, orderFailureCount, entryOffset, pendingSlTp,
                   positions, dbState, lastResetDate, lastBasePriceFetchAttempt,
                   fetching, retryTimers, placements, resetsLoading, reconciles,
                   today, openFillSeen, calendarVars, sessionResetDone,
                   fetchPredatesReset, framingVars, strayVars, ledgerVars,
                   orderVars, brokerVars, watchVars, saveVars, signalVars, botVars, connected, authenticated,
                   socket, destroyed, reconnectAttempts, reconnectTimeout,
                   heartbeatInterval, heartbeatStale, socketNo, firstIdOnSocket,
                   delivered, reconnectFailed, attemptsSinceReady>>

\* send, called by the engine while the socket is connected (it throws
\* otherwise): a new id, a new entry, a new promise.
send(payloadType) ==
    /\ socket # "null" /\ connected
    /\ pendingRequests' = SetEntry(pendingRequests,
                             [id |-> nextClientMsgId, type |-> payloadType,
                              socketNo |-> socketNo])
    /\ nextClientMsgId' = nextClientMsgId + 1
    /\ unsettled' = unsettled \cup {nextClientMsgId}
    /\ UNCHANGED <<engineVars, framingVars, botVars, ledgerVars, orderVars, brokerVars, startVars, watchVars, saveVars, signalVars, strayVars, connected, authenticated, socket,
                   destroyed, reconnectAttempts, reconnectTimeout,
                   heartbeatInterval, heartbeatStale, socketNo, firstIdOnSocket,
                   delivered, reconnectFailed, attemptsSinceReady>>

\* Variant: a timer that empties the table and rejects its own request.
requestTimeout_ClearsTable(id) ==
    /\ id \in PendingIds
    /\ pendingRequests' = {}
    /\ unsettled' = unsettled \ {id}
    /\ UNCHANGED <<engineVars, framingVars, botVars, ledgerVars, orderVars, brokerVars, startVars, watchVars, saveVars, signalVars, strayVars, connected, authenticated, socket,
                   destroyed, reconnectAttempts, reconnectTimeout,
                   heartbeatInterval, heartbeatStale, nextClientMsgId, socketNo,
                   firstIdOnSocket, delivered, reconnectFailed,
                   attemptsSinceReady>>

\* The timer of request id fires REQUEST_TIMEOUT_MS after send: a request
\* still in the table is deleted and rejected (the timer of a settled request
\* finds nothing and does nothing).
requestTimeout(id) ==
    /\ id \in PendingIds
    /\ pendingRequests' = {r \in pendingRequests : r.id # id}
    /\ unsettled' = unsettled \ {id}
    /\ UNCHANGED <<engineVars, framingVars, botVars, ledgerVars, orderVars, brokerVars, startVars, watchVars, saveVars, signalVars, strayVars, connected, authenticated, socket,
                   destroyed, reconnectAttempts, reconnectTimeout,
                   heartbeatInterval, heartbeatStale, nextClientMsgId, socketNo,
                   firstIdOnSocket, delivered, reconnectFailed,
                   attemptsSinceReady>>

\* The callback of socket.write reports an error for request id.
writeError(id) ==
    /\ id \in PendingIds
    /\ pendingRequests' = {r \in pendingRequests : r.id # id}
    /\ unsettled' = unsettled \ {id}
    /\ UNCHANGED <<engineVars, framingVars, botVars, ledgerVars, orderVars, brokerVars, startVars, watchVars, saveVars, signalVars, strayVars, connected, authenticated, socket,
                   destroyed, reconnectAttempts, reconnectTimeout,
                   heartbeatInterval, heartbeatStale, nextClientMsgId, socketNo,
                   firstIdOnSocket, delivered, reconnectFailed,
                   attemptsSinceReady>>

\* HEARTBEAT_TIMEOUT_MS pass without an inbound message.
silence ==
    /\ ~heartbeatStale
    /\ heartbeatStale' = TRUE
    /\ UNCHANGED <<engineVars, framingVars, botVars, ledgerVars, orderVars, brokerVars, startVars, watchVars, saveVars, signalVars, strayVars, connected, authenticated, socket,
                   destroyed, reconnectAttempts, reconnectTimeout,
                   heartbeatInterval, pendingRequests, nextClientMsgId, unsettled,
                   socketNo, firstIdOnSocket, delivered, reconnectFailed,
                   attemptsSinceReady>>

\* The heartbeat interval fires: it stops itself when not connected, calls
\* disconnect() when the last message is too old, else sends a heartbeat.
heartbeatTick ==
    /\ heartbeatInterval
    /\ IF ~connected
       THEN /\ heartbeatInterval' = FALSE
            /\ UNCHANGED <<connected, authenticated, socket, destroyed,
                           reconnectTimeout, pendingRequests, nextClientMsgId,
                           unsettled>>
       ELSE IF heartbeatStale
       THEN /\ connected' = FALSE
            /\ authenticated' = FALSE
            /\ heartbeatInterval' = FALSE
            /\ reconnectTimeout' = "null"
            /\ socket' = "null"
            /\ destroyed' = IF socket \in {"connecting", "open"}
                            THEN destroyed + 1 ELSE destroyed
            /\ UNCHANGED <<pendingRequests, nextClientMsgId, unsettled>>
       ELSE /\ pendingRequests' = SetEntry(pendingRequests,
                                     [id |-> nextClientMsgId,
                                      type |-> "ProtoHeartbeatEvent",
                                      socketNo |-> socketNo])
            /\ nextClientMsgId' = nextClientMsgId + 1
            /\ unsettled' = unsettled \cup {nextClientMsgId}
            /\ UNCHANGED <<connected, authenticated, heartbeatInterval, socket,
                           destroyed, reconnectTimeout>>
    /\ UNCHANGED <<engineVars, framingVars, botVars, ledgerVars, orderVars, brokerVars, startVars, watchVars, saveVars, signalVars, strayVars, reconnectAttempts, heartbeatStale,
                   socketNo, firstIdOnSocket, delivered, reconnectFailed,
                   attemptsSinceReady>>

\* A quote of the set quotes arrives.
SpotEvent(quotes) ==
    \E bid \in quotes, ask \in quotes, elapsed \in BOOLEAN,
       currentMinutes \in ClockMinutes, isDst \in BOOLEAN :
       handleSpotEvent(bid, ask, elapsed, currentMinutes, isDst)

\* The steps of openPosition calls in flight.
Placement ==
    \/ \E i \in 1..MaxInFlight, symbolFound \in BOOLEAN, isConnected \in BOOLEAN :
          openPositionSend(i, symbolFound, isConnected)
    \/ \E i \in 1..MaxInFlight : openPositionAnswered(i)
    \/ \E i \in 1..MaxInFlight : openPositionTimeout(i)

\* The steps of the baseline fetch.
BaselineFetch ==
    \/ \E status \in {"closed", "price", "none"}, price \in Baselines :
          fetchAndSetOpenPrice(status, price)
    \/ fetchRetry

\* The order lifecycle of one day in a rallying session, but for the
\* execution events: the state store takes every write, a load may fail. No
\* caller passes force to resetDaily.
Session ==
    \/ SpotEvent(RallyPrices)
    \/ Placement
    \/ \E ok \in BOOLEAN, list \in SUBSET PositionIds : reconcilePositions(ok, list, TRUE)
    \/ accountAuthSuccess
    \/ resetDaily(FALSE, TRUE)
    \/ \E i \in 1..MaxResetsLoading, loadOk \in BOOLEAN : resetDailyLoaded(i, loadOk, TRUE)
    \/ startWatching
    \/ BaselineFetch
    \/ toggleWatch

Next ==
    \/ Session
    \/ \E ev \in ExecutionEvents : handleExecutionEvent(ev, TRUE)

Spec == Init /\ [][Next]_vars

\* The sessions in which every rejection arrives while todayTradeDone is set
\* (a trade was marked done before each of them).
NextCap ==
    \/ Session
    \/ \E ev \in ExecutionEvents :
          /\ ev.executionType = 4 => todayTradeDone
          /\ handleExecutionEvent(ev, TRUE)

SpecCap == Init /\ [][NextCap]_vars

\* The request layer settles every request: getSymbolInfo resolves or throws,
\* and the timer send arms with each request rejects it when no reply came.
LiveSpec ==
    /\ Spec
    /\ WF_vars(\E i \in 1..MaxInFlight, symbolFound \in BOOLEAN, isConnected \in BOOLEAN :
                  openPositionSend(i, symbolFound, isConnected))
    /\ WF_vars(\E i \in 1..MaxInFlight : openPositionTimeout(i))

\* The entry rule under every quote and every configured offset, with the
\* configuration's saves failing or not.
NextEntry ==
    \/ SpotEvent(SpotPrices)
    \/ \E offset \in Offsets, saveOk \in BOOLEAN : updateConfig(offset, saveOk)
    \/ Placement
    \/ startWatching
    \/ BaselineFetch
    \/ toggleWatch

SpecEntry == Init /\ [][NextEntry]_vars

\* The dashboard changes the configuration while the engine watches quotes
\* and trades; the store's writes end in any order, failing or not.
NextConfig ==
    \/ \E offset \in Offsets :
          Len(configSaves) < MaxConfigSaves /\ apiUpdateConfig(offset)
    \/ \E i \in 1..MaxConfigSaves, ok \in BOOLEAN : configSaveEnds(i, ok)
    \/ SpotEvent(SpotPrices)
    \/ Placement
    \/ startWatching
    \/ BaselineFetch

SpecConfig == Init /\ [][NextConfig]_vars

\* The baseline refreshed from trendbar answers, by ticks, by startWatching
\* and by the retry timer.
NextBaseline ==
    \/ SpotEvent(SpotPrices)
    \/ startWatching
    \/ fetchRetry
    \/ \E isOpen \in BOOLEAN, requestOk \in BOOLEAN, trendbar \in TrendbarLists :
          fetchAndSetOpenPriceBars(isOpen, requestOk, trendbar)

SpecBaseline == Init /\ [][NextBaseline]_vars

\* Placements on baselines fetched from trendbar answers.
NextBracket ==
    \/ NextBaseline
    \/ Placement

SpecBracket == Init /\ [][NextBracket]_vars

\* Lot sizes as the state store or the configuration gives them: 0.005,
\* 0.1, 0.25 lot.
LotSizes == {5, baseLotSize, 250}

\* Instruments: steps of 1 and 10 with a minimum of 10, and the defaults.
SymbolInfos == {[stepVolume |-> 1, minVolume |-> minVolume],
                [stepVolume |-> 10, minVolume |-> minVolume],
                DefaultSymbol}

\* The engine with any of the lot sizes, on any of the instruments.
InitVolume ==
    /\ EngineFlags
    /\ trades = <<>>
    /\ wins = 0
    /\ losses = 0
    /\ lotSize \in LotSizes
    /\ symbolData \in SymbolInfos
    /\ ConnInit

SpecVolume == InitVolume /\ [][NextBracket]_vars

\* The brackets a placement can stash.
Brackets == {Bracket(type, base) : type \in {"long", "short"},
                                   base \in Baselines \cup {NoPrice}}

\* Sessions in which every execution event is the broker's answer to an
\* order of the bot: quotes on both sides of the baseline, the watch started
\* again after a placement.
NextOrders ==
    \/ SpotEvent(SpotPrices)
    \/ \E i \in 1..MaxInFlight, symbolFound \in BOOLEAN, isConnected \in BOOLEAN :
          placeOrder(i, symbolFound, isConnected)
    \/ \E i \in 1..MaxInFlight : openPositionAnswered(i)
    \/ \E i \in 1..MaxInFlight : openPositionTimeout(i)
    \/ \E o \in Brackets, positionId \in PositionIds : brokerFills(o, positionId, TRUE)
    \/ \E o \in Brackets : brokerRejects(o, TRUE)
    \/ startWatching
    \/ BaselineFetch

\* A first start: the state store is empty and the account has no position.
InitOrders ==
    /\ Init
    /\ dbState = <<>>
    /\ positions = {}

SpecOrders == InitOrders /\ [][NextOrders]_vars

\* The watch time of a session: quotes refresh the baseline, checkTime
\* calls startWatching.
NextWatch ==
    \/ SpotEvent(SpotPrices)
    \/ watchTime
    \/ \E status \in {"closed", "price", "none"}, price \in Baselines :
          fetchEnds(status, price)
    \/ fetchRetry
    \/ Placement

SpecWatch == InitOrders /\ [][NextWatch]_vars

\* The execution events of a session with the writes of the state store
\* they begin: every write succeeds, in any order.
NextSaves ==
    \/ \E ev \in ExecutionEvents : executionEventSaves(ev)
    \/ \E i \in 1..MaxSaves : saveEnds(i)

SpecSaves == Init /\ [][NextSaves]_vars

\* Placements with their signals: every reply the broker can send with the
\* order request's id, and the failures of send.
NextReplies ==
    \/ SpotEvent(SpotPrices)
    \/ startWatching
    \/ BaselineFetch
    \/ \E i \in 1..MaxInFlight, symbolFound \in BOOLEAN, isConnected \in BOOLEAN :
          openPositionSendSignals(i, symbolFound, isConnected)
    \/ \E i \in 1..MaxInFlight, payloadType \in OrderReplies :
          openPositionReplied(i, payloadType)
    \/ \E i \in 1..MaxInFlight : openPositionThrows(i)

SpecReplies == InitOrders /\ [][NextReplies]_vars

\* A history of n records as the state store returns it.
RestoredTrades(n) == [i \in 1..n |-> [id |-> 1, profit |-> 1, no |-> n - i + 1]]

\* The engine started on a store whose history is empty or nearly full.
InitLedger ==
    /\ EngineFields
    /\ ConnInit
    /\ \E n \in {0} \cup (HISTORY - 2)..HISTORY :
          /\ trades = RestoredTrades(n)
          /\ wins = n
    /\ losses = 0

\* Room for one more closing fill within MaxCloses of the restored history.
CanClose ==
    \/ Len(trades) < MaxCloses
    \/ Len(trades) >= HISTORY - 2 /\ wins + losses < HISTORY + MaxCloses

\* Closing fills, with the reconciliations that fill the cache again.
NextLedger ==
    \/ \E deal \in Deals, saveOk \in BOOLEAN : CanClose /\ closingFill(deal, saveOk)
    \/ accountAuthSuccess
    \/ \E ok \in BOOLEAN, list \in SUBSET PositionIds : reconcilePositions(ok, list, TRUE)

SpecLedger == InitLedger /\ [][NextLedger]_vars

\* One calendar day of resets against a state store whose loads and saves may
\* fail, with the forced call the engine offers, and trades and baseline
\* fetches in between.
NextReset ==
    \/ \E force \in BOOLEAN, saveOk \in BOOLEAN : resetDaily(force, saveOk)
    \/ \E i \in 1..MaxResetsLoading, loadOk \in BOOLEAN, saveOk \in BOOLEAN :
          resetDailyLoaded(i, loadOk, saveOk)
    \/ \E ev \in ExecutionEvents, saveOk \in BOOLEAN : handleExecutionEvent(ev, saveOk)
    \/ \E ok \in BOOLEAN, list \in SUBSET PositionIds : reconcilePositions(ok, list, TRUE)
    \/ startWatching
    \/ BaselineFetch

SpecReset == Init /\ [][NextReset]_vars

\* The calendar over the days 0..MaxDay with the two callers of resetDaily,
\* the scheduler (checkTime) and the dashboard (POST /api/action reset, which
\* passes no force), against a state store that takes every load and save.
NextSession ==
    \/ marketOpens
    \/ midnight
    \/ \E isAfterWatchTime \in BOOLEAN : checkTime(isAfterWatchTime)
    \/ resetDaily(FALSE, TRUE)
    \/ \E i \in 1..MaxResetsLoading : resetDailyLoaded(i, TRUE, TRUE)
    \/ \E ev \in ExecutionEvents : handleExecutionEvent(ev, TRUE)
    \/ \E ok \in BOOLEAN, list \in SUBSET PositionIds : reconcilePositions(ok, list, TRUE)
    \/ BaselineFetch

SpecSession == Init /\ [][NextSession]_vars

\* The payloads a peer can frame and write: up to MaxFrames of them, each of
\* up to MaxPayloadLen bytes.
Payloads == UNION {[1..n -> Bytes] : n \in 0..MaxPayloadLen}

PayloadSeqs == UNION {[1..n -> Payloads] : n \in 0..MaxFrames}

\* A fresh engine without stored state and a connected socket that has
\* delivered nothing yet.
FramingStart ==
    /\ EngineInit
    /\ initStep = "connect"
    /\ watchAsked = FALSE
    /\ saves = <<>>
    /\ tradeSignal = "none"
    /\ dbState = <<>>
    /\ positions = {}
    /\ connected = TRUE
    /\ authenticated = FALSE
    /\ incomingBuffer = <<>>
    /\ frames = <<>>
    /\ handled = <<>>
    /\ socket = "open"
    /\ destroyed = 0
    /\ reconnectAttempts = 0
    /\ reconnectTimeout = "null"
    /\ heartbeatInterval = FALSE
    /\ heartbeatStale = FALSE
    /\ pendingRequests = {}
    /\ nextClientMsgId = 1
    /\ unsettled = {}
    /\ socketNo = 1
    /\ firstIdOnSocket = 1
    /\ delivered = <<>>
    /\ reconnectFailed = FALSE
    /\ attemptsSinceReady = 0
    /\ orphaned = 0
    /\ strayTimers = 0
    /\ delay = 0
    /\ subscribeSent = FALSE
    /\ configSaves = <<>>
    /\ apiReply = "none"

\* The peer has written the packets of some payloads, all of which decode
\* and are handled without an exception.
InitFraming ==
    /\ FramingStart
    /\ payloads \in PayloadSeqs
    /\ wire = packets(payloads)
    /\ throwing = {}

\* The peer has written the packets of some payloads; on some of them
\* ProtoMessage.decode or handleMessage throws.
InitThrowing ==
    /\ FramingStart
    /\ payloads \in PayloadSeqs
    /\ wire = packets(payloads)
    /\ throwing \in SUBSET {payloads[i] : i \in 1..Len(payloads)}

\* The peer has written a prefix that announces more bytes than it will
\* ever write, then the packets of some payloads.
InitBadLength ==
    /\ FramingStart
    /\ payloads \in PayloadSeqs \ {<<>>}
    /\ wire = writeUInt32BE(BadLength) \o packets(payloads)
    /\ throwing = {}

\* The socket delivers the stream in reads of any size.
NextFraming == \E n \in 1..(MaxFrames * (4 + MaxPayloadLen)) : socketData(n)

SpecFraming == InitFraming /\ [][NextFraming]_vars

SpecThrowing == InitThrowing /\ [][NextFraming]_vars

\* The reads of a stream that begins with the bad prefix.
NextBadLength ==
    \E n \in 1..(4 + MaxFrames * (4 + MaxPayloadLen)) : socketData(n)

SpecBadLength == InitBadLength /\ [][NextBadLength]_vars

\* A fresh engine without stored state and a connection just constructed.
InitConn ==
    /\ EngineInit
    /\ dbState = <<>>
    /\ positions = {}
    /\ ConnInit

\* Room for one more request within the bounds.
CanSend == nextClientMsgId <= MaxMsgId /\ Cardinality(pendingRequests) < MaxPending

\* The connection: its sockets, its requests and the messages of its peer.
NextConn ==
    \/ connectAtStart
    \/ CanSend /\ socketOpens
    \/ socketClose
    \/ destroyedSocketClose
    \/ socketNo < MaxSockets /\ attemptsSinceReady < MaxReconnects /\ reconnectTimerFires
    \/ \E m \in Messages :
          /\ m.payloadType = "ProtoOAApplicationAuthRes" => CanSend
          /\ socketMessage(m)
    \/ \E payloadType \in EngineRequests : CanSend /\ send(payloadType)
    \/ \E id \in 1..MaxMsgId : requestTimeout(id)
    \/ \E id \in 1..MaxMsgId : writeError(id)
    \/ silence
    \/ (connected /\ ~heartbeatStale => CanSend) /\ heartbeatTick

SpecConn == InitConn /\ [][NextConn]_vars

\* The timers of the connection fire: the timer send sets for each request,
\* the heartbeat interval, the reconnect timer; and a destroyed socket emits
\* its 'close'. Nothing is assumed of the peer.
LiveSpecConn ==
    /\ SpecConn
    /\ \A id \in 1..MaxMsgId : WF_vars(requestTimeout(id))
    /\ WF_vars((connected /\ ~heartbeatStale => CanSend) /\ heartbeatTick)
    /\ WF_vars(destroyedSocketClose)
    /\ WF_vars(socketNo < MaxSockets /\ attemptsSinceReady < MaxReconnects
                  /\ reconnectTimerFires)

\* The connection of a bot whose init() succeeded. TradingBot.init awaits the
\* first connect(), and main() ends the process when it rejects: the first
\* attempt opens its socket, and the first application-auth request (id 1)
\* is settled by its response, never by its timer or a write error.
NextStarted ==
    \/ connectAtStart
    \/ CanSend /\ socketOpens
    \/ socketNo >= 1 /\ 1 \notin PendingIds /\ socketClose
    \/ destroyedSocketClose
    \/ socketNo < MaxSockets /\ attemptsSinceReady < MaxReconnects /\ reconnectTimerFires
    \/ \E m \in Messages : /\ m.payloadType = "ProtoOAApplicationAuthRes" => CanSend
                           /\ socketMessage(m)
    \/ \E payloadType \in EngineRequests : CanSend /\ send(payloadType)
    \/ \E id \in 2..MaxMsgId : requestTimeout(id)
    \/ \E id \in 2..MaxMsgId : writeError(id)
    \/ silence
    \/ (connected /\ ~heartbeatStale => CanSend) /\ heartbeatTick

\* The started connection with the scheduling of its own timers: a request
\* timer, the heartbeat interval and the reconnect timer fire when due, and a
\* destroyed socket emits its close event. The peer's messages and closes
\* and the engine's requests carry no such assumption.
LiveSpecStarted ==
    /\ InitConn /\ [][NextStarted]_vars
    /\ \A id \in 2..MaxMsgId : WF_vars(requestTimeout(id))
    /\ WF_vars((connected /\ ~heartbeatStale => CanSend) /\ heartbeatTick)
    /\ WF_vars(destroyedSocketClose)
    /\ WF_vars(socketNo < MaxSockets /\ attemptsSinceReady < MaxReconnects /\ reconnectTimerFires)

\* The started connection when every attempt opens its socket and the peer
\* closes it before the account auth succeeds: the only message is the
\* response to the first application-auth request, and each socket is
\* closed before the first heartbeat tick. The history counter is followed one attempt past
\* maxReconnectAttempts.
NextAuthFails ==
    \/ connectAtStart
    \/ Cardinality(pendingRequests) < MaxPending /\ socketOpens
    \/ \E m \in Messages : /\ m.payloadType = "ProtoOAApplicationAuthRes"
                           /\ m.clientMsgId = 1 /\ 1 \in PendingIds
                           /\ socketMessage(m)
    \/ socket = "open" /\ 1 \notin PendingIds /\ socketClose
    \/ attemptsSinceReady <= maxReconnectAttempts /\ reconnectTimerFires
    \/ \E id \in 2..(2 * (maxReconnectAttempts + 2)) : requestTimeout(id)

SpecAuthFails == InitConn /\ [][NextAuthFails]_vars

\* Room for one more socket or timer outside the fields, within the bounds.
CanOrphan == socket \in {"connecting", "open"} => orphaned < MaxOrphans

CanStray == reconnectTimeout = "armed" => strayTimers < MaxStrayTimers

\* The reconnect timers have called connect() fewer than maxReconnectAttempts
\* times since the last account auth.
CanRetry == attemptsSinceReady < maxReconnectAttempts

\* The answers of the peer to the two authentication requests.
AuthResponses ==
    {m \in Messages : /\ m.payloadType \in {"ProtoOAApplicationAuthRes",
                                             "ProtoOAAccountAuthRes"}
                      /\ m.clientMsgId \in PendingIds}

\* The started connection with the bot's watchdog, followed until the
\* reconnect attempts are exhausted: attempts may fail to open their socket
\* up to maxReconnectAttempts times in a row, and the peer sends nothing but
\* its answers to the authentication requests.
NextWatchdog ==
    \/ connectAtStart
    \/ socketNo < MaxSockets /\ CanSend /\ socketOpens
    \/ socketNo >= 1 /\ 1 \notin PendingIds /\ CanStray /\ socketClose
    \/ CanStray /\ destroyedSocketClose
    \/ CanStray /\ orphanClose
    \/ CanRetry /\ CanOrphan /\ reconnectTimerFires
    \/ CanRetry /\ CanOrphan /\ strayTimerFires
    \/ CanOrphan /\ watchdog
    \/ \E m \in AuthResponses : /\ m.payloadType = "ProtoOAApplicationAuthRes" => CanSend
                                /\ socketMessage(m)
    \/ \E id \in 2..MaxMsgId : requestTimeout(id)
    \/ silence
    \/ (connected /\ ~heartbeatStale => CanSend) /\ heartbeatTick

SpecWatchdog == InitConn /\ [][NextWatchdog]_vars

\* The same with the scheduling of the program's own timers: the request
\* timers, the heartbeat interval, the reconnect timers and the once-a-minute
\* watchdog fire when due, and a destroyed socket emits its close event.
LiveSpecWatchdog ==
    /\ SpecWatchdog
    /\ \A id \in 2..MaxMsgId : WF_vars(requestTimeout(id))
    /\ WF_vars((connected /\ ~heartbeatStale => CanSend) /\ heartbeatTick)
    /\ WF_vars(CanStray /\ destroyedSocketClose)
    /\ WF_vars(CanRetry /\ CanOrphan /\ reconnectTimerFires)
    /\ WF_vars(CanRetry /\ CanOrphan /\ strayTimerFires)
    /\ WF_vars(CanOrphan /\ watchdog)

\* Room for the requests of one more turn within the bounds.
BotCanSend ==
    /\ nextClientMsgId < MaxBotMsgId
    /\ Cardinality(pendingRequests) < MaxBotPending

\* The started connection with the engine attached: the peer answers
\* requests or lets them time out, and closes sockets.
NextReady ==
    \/ connectAtStart
    \/ BotCanSend /\ socketOpens
    \/ socketNo >= 1 /\ 1 \notin PendingIds /\ socketClose
    \/ socketNo < MaxSockets /\ reconnectTimerFires
    \/ \E id \in 1..MaxBotMsgId, type \in BotResponses,
          cached \in BOOLEAN, symbolFound \in BOOLEAN, ok \in BOOLEAN,
          list \in SUBSET PositionIds :
          /\ BotCanSend
          /\ botMessage([payloadType |-> type, clientMsgId |-> id],
                        cached, symbolFound, ok, list)
    \/ \E id \in 2..MaxBotMsgId : requestTimeout(id)

SpecReady == InitConn /\ [][NextReady]_vars

\* The bot from its start: init awaits connect(), then the engine's
\* initialize, while the peer answers, lets requests time out and closes
\* sockets.
NextStartup ==
    \/ connectAtStart
    \/ BotCanSend /\ socketOpens
    \/ socketNo >= 1 /\ 1 \notin PendingIds /\ socketClose
    \/ socketNo < MaxSockets /\ reconnectTimerFires
    \/ \E id \in 1..MaxBotMsgId, type \in BotResponses,
          cached \in BOOLEAN, symbolFound \in BOOLEAN, ok \in BOOLEAN,
          list \in SUBSET PositionIds :
          /\ BotCanSend
          /\ startupMessage([payloadType |-> type, clientMsgId |-> id],
                            cached, symbolFound, ok, list)
    \/ BotCanSend /\ initializeReconciles
    \/ \E id \in 2..MaxBotMsgId : requestTimeout(id)

SpecStartup == InitConn /\ [][NextStartup]_vars

\* ------------------------------------------------------------ properties

\* A step in which an openPosition call passes its guard and takes the lock.
PlacementStarts == Len(placements') > Len(placements)

\* A step in which an openPosition call reaches its finally block.
PlacementEnds == Len(placements') < Len(placements)

\* A step in which a market-order request is handed to the connection and is
\* left waiting for its reply.
OrderSent == NumAwaitingOrder(placements') > NumAwaitingOrder(placements)

\* A step of resetDaily that clears the session state.
ResetClears ==
    \E i \in 1..MaxResetsLoading, loadOk \in BOOLEAN :
        /\ resetDailyLoaded(i, loadOk, TRUE)
        /\ lastResetDate' = resetsLoading[i]
        /\ orderFailureCount' = 0
        /\ ~openFillSeen'

\* C1: at most one order placement is in progress: a market-order request is
\* sent only by a placement that is the only one in progress, so never while
\* an earlier placement is still waiting for its answer or its timeout.
C1_SinglePlacementInFlight == [][OrderSent => Len(placements) = 1]_vars

\* C2: once an opening fill has been handled, no market-order request is sent
\* before the next reset.
C2_NoOrderAfterOpeningFill == [][openFillSeen => ~OrderSent]_vars

\* C3: while isPlacingOrder is held no step starts a placement, whatever
\* ticks arrive; and a placement only ever starts in the step of a tick that
\* passes the guards itself, so an ignored tick is not replayed later.
C3_LockIgnoresTicks ==
    [][/\ isPlacingOrder => ~PlacementStarts
       /\ PlacementStarts => ~isPlacingOrder /\ SpotEvent(RallyPrices)]_vars

\* C3 witness: the lock is held by a placement awaiting its symbol and every
\* other guard of the entry path passes, so the next tick qualifies and is ignored.
C3_Witness ==
    /\ isPlacingOrder /\ Len(placements) = 1 /\ placements[1].stage = "symbol"
    /\ isWatching /\ ~todayTradeDone /\ todayOpenPrice # NoPrice
    /\ lastBasePriceFetchAttempt /\ currentPrice # NoPrice

\* C4: once orderFailureCount exceeds the retry cap, no market-order request
\* is sent until the next reset.
C4_NoOrderBeyondRetryCap == [][orderFailureCount > retryCap => ~OrderSent]_vars

C6_TickGuards ==
    [][/\ PlacementStarts => SpotEvent(RallyPrices)
       /\ \A bid \in RallyPrices, ask \in RallyPrices, elapsed \in BOOLEAN,
             currentMinutes \in ClockMinutes, isDst \in BOOLEAN :
             LET passes == /\ todayOpenPrice' # NoPrice
                           /\ ~todayTradeDone
                           /\ isWatching
                           /\ ~isPlacingOrder
                           /\ isWithinTradingHours(currentMinutes, isDst)
                 guarded == /\ PlacementStarts => passes
                            /\ ~passes => UNCHANGED <<isWatching, isPlacingOrder,
                                                      todayTradeDone, pendingSlTp>>
             IN  guarded \/ ~handleSpotEvent(bid, ask, elapsed, currentMinutes, isDst)]_vars

\* C6 witness: a tick has passed every guard and its placement is awaiting
\* the symbol, with a bracket of an earlier placement still pending.
C6_Witness ==
    /\ Len(placements) = 1 /\ placements[1].stage = "symbol"
    /\ isPlacingOrder /\ isWatching /\ pendingSlTp # <<>>

\* C7: on a tick that passes the guards the entry rule opens short iff
\* p - B >= O, long iff p - B <= -O, and nothing iff B - O < p < B + O, for
\* the mid price p, the baseline B and every offset O the configuration can
\* hold.
C7_EntryRuleExclusive ==
    [][\A bid \in SpotPrices, ask \in SpotPrices, elapsed \in BOOLEAN,
          currentMinutes \in ClockMinutes, isDst \in BOOLEAN :
          (/\ handleSpotEvent(bid, ask, elapsed, currentMinutes, isDst)
           /\ todayOpenPrice' # NoPrice
           /\ ~todayTradeDone /\ isWatching /\ ~isPlacingOrder
           /\ isWithinTradingHours(currentMinutes, isDst)) =>
             LET p == currentPrice'
                 B == todayOpenPrice'
                 O == entryOffset * multiplier
                 side == IF PlacementStarts
                         THEN placements'[Len(placements')].type ELSE "none"
             IN  /\ side = "short" <=> p - B >= O
                 /\ side = "long" <=> p - B <= -O
                 /\ side = "none" <=> (B - O < p /\ p < B + O)]_vars

\* C8: a placement that ends leaves isPlacingOrder and isWatching false; no
\* placement starts while isWatching is false; and isWatching turns true only
\* in startWatching, in the baseline fetch startWatching awaits, or in the
\* dashboard's toggle.
C8_FinallyStopsWatching ==
    [][/\ PlacementEnds => ~isPlacingOrder' /\ ~isWatching'
       /\ ~isWatching => ~PlacementStarts
       /\ (~isWatching /\ isWatching') =>
             \/ startWatching
             \/ toggleWatch
             \/ /\ fetching # <<>> /\ fetching[1].watch
                /\ \E price \in Baselines : fetchAndSetOpenPrice("price", price)]_vars

\* C8 witness: every placement has ended after a bracket was stashed; the
\* baseline is still set and no trade is done, so only isWatching = FALSE
\* keeps the next tick from ordering.
C8_Witness ==
    /\ placements = <<>> /\ pendingSlTp # <<>>
    /\ ~isWatching /\ ~isPlacingOrder
    /\ ~todayTradeDone /\ todayOpenPrice # NoPrice /\ currentPrice # NoPrice

\* C9: whenever isPlacingOrder is true it is false again later.
C9_LockReleased == isPlacingOrder ~> ~isPlacingOrder

\* C9 witness: the lock is held while the market order waits for an answer.
C9_Witness ==
    isPlacingOrder /\ Len(placements) = 1 /\ NumAwaitingOrder(placements) = 1

ResetResumes(i) ==
    /\ i \in 1..Len(resetsLoading)
    /\ resetsLoading' = RemoveAt(resetsLoading, i)

\* C11: a non-forced resetDaily call on a calendar day on which a reset
\* already cleared the state leaves todayTradeDone, todayOpenPrice, isWatching,
\* isPlacingOrder and orderFailureCount as they are, whatever the state
\* store's load and save do.
C11_SecondResetChangesNothing ==
    [][\A i \in 1..MaxResetsLoading :
          ResetResumes(i) /\ lastResetDate = resetsLoading[i]
             => UNCHANGED <<todayTradeDone, todayOpenPrice, isWatching,
                            isPlacingOrder, orderFailureCount>>]_vars

\* C12: the session state is reset once per trading session: a non-forced
\* resetDaily call in a session in which a reset already cleared the state
\* (a dashboard reset after midnight, say) changes nothing.
C12_OneResetPerSession ==
    [][\A i \in 1..MaxResetsLoading :
          ResetResumes(i) /\ sessionResetDone
             => UNCHANGED <<todayTradeDone, todayOpenPrice, isWatching,
                            isPlacingOrder, orderFailureCount, lastResetDate>>]_vars

\* C13: a baseline is installed only by a baseline fetch that started after
\* the latest reset that cleared the state: a fetch already in flight when
\* the reset ran installs nothing afterwards.
C13_BaselineFromCurrentSession ==
    [][todayOpenPrice' # NoPrice /\ todayOpenPrice' # todayOpenPrice
          => isFetchingOpenPrice /\ ~fetchPredatesReset]_vars

\* C14: under every fragmentation of the framed stream the framer hands over
\* exactly the written payloads, each once and in order, as soon as its last
\* byte arrived, and keeps the bytes of an incomplete frame for the next read.
C14_FramingRoundTrip ==
    LET n == Len(frames)
    IN  /\ n <= Len(payloads)
        /\ frames = SubSeq(payloads, 1, n)
        /\ incomingBuffer \o wire = packets(SubSeq(payloads, n + 1, Len(payloads)))
        /\ n < Len(payloads) => Len(incomingBuffer) < 4 + Len(payloads[n + 1])
        /\ wire = <<>> => frames = payloads /\ incomingBuffer = <<>>

\* A read ended inside the length prefix of the second frame, after the
\* first frame had been handed over.
C14_Witness ==
    /\ Len(frames) = 1
    /\ Len(payloads) = 2
    /\ Len(incomingBuffer) \in 1..3
    /\ Len(payloads[1]) > 0

C16_IdsNeverReused ==
    /\ [](\A r \in pendingRequests :
             /\ r.id < nextClientMsgId
             /\ \A q \in pendingRequests : q.id = r.id => q = r)
    /\ [][/\ nextClientMsgId' >= nextClientMsgId
          /\ \A r \in pendingRequests' \ pendingRequests : r.id = nextClientMsgId
          /\ \A m \in Messages :
                socketMessage(m) =>
                   \A r \in pendingRequests \ pendingRequests' : r.socketNo = socketNo]_vars

\* A response has been handled on the second socket while a request sent on
\* the first one is still pending.
C16_Witness ==
    /\ socketNo = 2
    /\ delivered # <<>>
    /\ delivered[1].clientMsgId >= firstIdOnSocket
    /\ \E r \in pendingRequests : r.socketNo = 1

\* C17: the promise of a request is pending exactly while its entry is in
\* the table, the timer of a request removes and rejects that request only,
\* and every promise is settled in the end, by its response, its timer or a
\* write error, also when the socket closes meanwhile.
C17_SettledExactlyOnce ==
    /\ [](unsettled = PendingIds)
    /\ [][\A id \in 1..MaxMsgId :
             requestTimeout(id) =>
                /\ pendingRequests' = {r \in pendingRequests : r.id # id}
                /\ unsettled' = unsettled \ {id}]_vars
    /\ \A id \in 1..MaxMsgId : (id \in unsettled) ~> (id \notin unsettled)

\* A request was rejected without any message having arrived, the socket has
\* closed, and a later request is still pending.
C17_Witness ==
    /\ delivered = <<>>
    /\ socket = "closed"
    /\ 1 \notin PendingIds
    /\ 2 \in PendingIds

\* C18: on an open socket (here one opened by a reconnection) that stays
\* without inbound message beyond the heartbeat timeout, the connection
\* leaves the connected state: the socket is force-closed or has closed.
C18_StaleSocketClosed ==
    (socket = "open" /\ socketNo > 1 /\ heartbeatStale)
       ~> (~heartbeatStale \/ ~connected)

\* C19: the reconnect-attempt counter goes back to zero only in the step
\* that makes the session Ready (the account-auth success).
C19_CounterResetByReadyOnly ==
    [][reconnectAttempts > 0 /\ reconnectAttempts' = 0
          => ~authenticated /\ authenticated']_vars

\* C20: when every attempt opens its socket and is closed before the account
\* auth succeeds, the reconnect timer calls connect() at most
\* maxReconnectAttempts times.
C20_ReconnectionStops == attemptsSinceReady <= maxReconnectAttempts

\* A 'close' event of a socket of the connection: a disconnection.
Disconnection == socketClose \/ destroyedSocketClose \/ orphanClose

\* The reconnect timers waiting to fire.
TimersArmed == (IF reconnectTimeout = "armed" THEN 1 ELSE 0) + strayTimers

\* C21: the attempt counter never exceeds maxReconnectAttempts; a
\* disconnection that finds it at the maximum emits reconnect-failed and
\* schedules no timer, and every other disconnection schedules exactly one
\* timer and adds exactly one to the counter.
C21_ReconnectCounted ==
    /\ [](reconnectAttempts <= maxReconnectAttempts)
    /\ [][Disconnection =>
            IF reconnectAttempts = maxReconnectAttempts
            THEN /\ reconnectFailed'
                 /\ TimersArmed' = TimersArmed
                 /\ reconnectAttempts' = reconnectAttempts
            ELSE /\ reconnectAttempts' = reconnectAttempts + 1
                 /\ TimersArmed' = TimersArmed + 1
                 /\ reconnectFailed' = reconnectFailed]_vars

\* The disconnection at the maximum has happened.
C21_Witness ==
    /\ reconnectFailed
    /\ reconnectAttempts = maxReconnectAttempts
    /\ TimersArmed = 0

\* C22: the timer scheduled when the counter is n has the delay
\* 1000, 2000, 4000, 8000, 16000, 32000, 60000, 60000, 60000, 60000 ms for
\* n = 0..9; within a run of failures the delay never decreases, and it never
\* exceeds 60000 ms.
C22_BackoffDelays ==
    /\ [](delay <= 60000)
    /\ [][reconnectAttempts' = reconnectAttempts + 1 =>
            /\ reconnectAttempts \in 0..9
            /\ delay' = <<1000, 2000, 4000, 8000, 16000, 32000,
                          60000, 60000, 60000, 60000>>[reconnectAttempts + 1]
            /\ reconnectAttempts > 0 => delay' >= delay]_vars

\* The tenth timer of a run of failures is scheduled, at the capped delay.
C22_Witness == reconnectAttempts = maxReconnectAttempts /\ delay = MAX_RECONNECT_DELAY_MS

\* C23: a started connection that is disconnected with no reconnect timer
\* waiting and no connect in progress gets a new connection attempt (from
\* the watchdog's next check).
C23_WatchdogRevives ==
    (/\ socketNo >= 1 /\ ~connected
     /\ TimersArmed = 0
     /\ socket \in {"null", "closed"} /\ orphaned = 0 /\ destroyed = 0)
       ~> (socket = "connecting" \/ connected)

\* The requests of the given type sent in this step on the current socket.
SentNow(type) ==
    {r \in pendingRequests' : /\ r.id >= nextClientMsgId /\ r.type = type
                              /\ r.socketNo = socketNo}

\* A message of the given type is handled in this step.
HandledNow(type) ==
    /\ delivered' # delivered
    /\ delivered'[1].payloadType = type

\* The application-auth success is emitted in this step.
AppAuthNow == HandledNow("ProtoOAApplicationAuthRes")

\* The account-auth success is emitted in this step: the session becomes Ready.
ReadyNow == HandledNow("ProtoOAAccountAuthRes")

\* C24: every application-auth success sends an account-auth request on the
\* same connection; every transition to Ready sends a position-reconcile
\* request in the listener of the authenticated signal; and a Ready session
\* has had its quote-subscription request sent, or the symbol lookup that
\* precedes it is still awaited.
C24_ReadyResubscribesAndReconciles ==
    /\ [](authenticated =>
            \/ subscribeSent
            \/ \E r \in pendingRequests : r.type = "ProtoOASymbolsListReq")
    /\ [][(AppAuthNow => SentNow("ProtoOAAccountAuthReq") # {})
           /\ (ReadyNow => SentNow("ProtoOAReconcileReq") # {})]_vars

\* C25: the step that answers success to a change of the configuration
\* leaves no save of that change outstanding, and the state store holds the
\* snapshot of that change.
C25_SuccessAfterSave ==
    [][(\E offset \in Offsets : apiUpdateConfig(offset)) /\ apiReply' = "success"
          => /\ Len(configSaves') <= Len(configSaves)
             /\ dbState' = <<[todayTradeDone |-> todayTradeDone,
                              lastResetDate |-> lastResetDate]>>]_vars

\* C26: a frame whose decoding or handling throws is skipped alone: the
\* frames before and after it, in the same read and in later reads, are
\* handled in order, the buffer advances past it, and the connection stays
\* connected.
C26_BadFrameSkippedAlone ==
    LET n == Len(frames)
    IN  /\ n <= Len(payloads)
        /\ frames = SubSeq(payloads, 1, n)
        /\ handled = Handled(SubSeq(payloads, 1, n))
        /\ incomingBuffer \o wire = packets(SubSeq(payloads, n + 1, Len(payloads)))
        /\ n < Len(payloads) => Len(incomingBuffer) < 4 + Len(payloads[n + 1])
        /\ wire = <<>> => handled = Handled(payloads) /\ incomingBuffer = <<>>
        /\ connected

\* The first frame threw and the frame after it was handled.
C26_Witness ==
    /\ Len(payloads) = 2
    /\ payloads[1] \in throwing
    /\ payloads[2] \notin throwing
    /\ handled = <<payloads[2]>>
    /\ incomingBuffer = <<>>

\* C27: the framer does not rest on a prefix that announces an invalid
\* length, buffering what follows: once the stream has arrived, the frames
\* written after the bad prefix have been handed over or the buffer has
\* been given up.
C27_BadLengthNotBuffered ==
    /\ Len(incomingBuffer) >= 4 /\ wire # <<>>
          => readUInt32BE(incomingBuffer, 0) < BadLength
    /\ wire = <<>> => frames = payloads \/ incomingBuffer = <<>>

\* A call of openPosition reaches its send, or an execution event is handled.
SendingCall ==
    \/ \E ev \in ExecutionEvents, saveOk \in BOOLEAN : handleExecutionEvent(ev, saveOk)
    \/ \E i \in 1..MaxInFlight, symbolFound \in BOOLEAN, isConnected \in BOOLEAN :
          openPositionSend(i, symbolFound, isConnected)

C29_ReconcileReplacesOrKeeps ==
    [][\A ok \in BOOLEAN, list \in SUBSET PositionIds, saveOk \in BOOLEAN :
          reconcilePositions(ok, list, saveOk)
             => positions' = (IF ok THEN list ELSE positions)]_vars

\* A reconciliation has just put the broker's position into the cache.
C29_Witness ==
    /\ emitted = "positions-reconciled"
    /\ positions = PositionIds
    /\ reconciles = 0

\* C30: a reconciliation whose request fails, and a baseline fetch that
\* ends without a price, emit a signal to the listeners.
C30_FailureSignalled ==
    [][(\/ \E list \in SUBSET PositionIds, saveOk \in BOOLEAN :
              reconcilePositions(FALSE, list, saveOk)
        \/ \E price \in Baselines : fetchAndSetOpenPrice("none", price))
          => emitted' # "none"]_vars

\* C31: the history never holds more than 50 records and runs from the
\* newest to the oldest; a closing fill puts one record in front of the
\* unchanged earlier ones, counts one win (net profit > 0) or one loss, and
\* removes the position of the fill's id and no other from the cache.
C31_HistoryBounded ==
    /\ [](/\ Len(trades) <= HISTORY
          /\ \A i \in 1..(Len(trades) - 1) : trades[i].no > trades[i + 1].no)
    /\ [][\A deal \in Deals, saveOk \in BOOLEAN : closingFill(deal, saveOk) =>
            /\ trades'[1].id = deal.positionId
            /\ trades'[1].profit > 0 <=> deal.netProfitRaw > 0
            /\ Len(trades') = (IF Len(trades) < HISTORY THEN Len(trades) + 1 ELSE HISTORY)
            /\ \A i \in 2..Len(trades') : trades'[i] = trades[i - 1]
            /\ wins' + losses' = wins + losses + 1
            /\ wins' = wins + 1 <=> deal.netProfitRaw > 0
            /\ positions' = positions \ {deal.positionId}]_vars

\* The full history took a loss: its oldest record left, the cache kept the
\* position the fill did not name.
C31_Witness ==
    /\ Len(trades) = HISTORY
    /\ wins + losses > HISTORY
    /\ losses > 0
    /\ trades[1].id = 2
    /\ positions = {1}

\* The answer has a bar of the target minute, and the first one is b.
IsTargetBar(trendbar, b) ==
    \E i \in 1..Len(trendbar) :
       /\ trendbar[i] = b
       /\ b.utcTimestampInMinutes = TargetMinute
       /\ \A j \in 1..(i - 1) : trendbar[j].utcTimestampInMinutes # TargetMinute

C33_BracketFromBaseline ==
    [][todayOpenPrice # NoPrice =>
         \A i \in 1..MaxInFlight, isConnected \in BOOLEAN :
            openPositionSend(i, TRUE, isConnected) =>
               LET baseline == todayOpenPrice \div multiplier
                   p == pendingSlTp'[1]
               IN  IF p.type = "long"
                   THEN p.takeProfit = baseline + longTP /\ p.stopLoss = baseline - longSL
                   ELSE p.takeProfit = baseline - shortTP /\ p.stopLoss = baseline + shortSL]_vars

\* A short was stashed on the higher baseline, below the current price.
C33_Witness ==
    /\ pendingSlTp # <<>>
    /\ pendingSlTp[1].type = "short"
    /\ todayOpenPrice = BarLow + BarDelta
    /\ pendingSlTp[1].takeProfit = (BarLow + BarDelta) \div multiplier - shortTP
    /\ currentPrice > todayOpenPrice

\* C34: the market order's volume is the lot size in volume units, rounded
\* down to a multiple of the instrument's step volume and raised to the
\* instrument's minimum volume when below it.
C34_VolumeBySymbol ==
    [][sent' # <<>> /\ sent'[1].payloadType = "ProtoOANewOrderReq" =>
         LET volume == (lotSize * VolumePerLot) \div LotUnit
             stepped == (volume \div symbolData.stepVolume) * symbolData.stepVolume
         IN  sent'[1].volume = IF stepped < symbolData.minVolume
                               THEN symbolData.minVolume
                               ELSE stepped]_vars

\* C35: whenever a placement stashes a bracket and sends the market order,
\* the baseline it reads is not null: the bracket is never the one of a zero baseline.
C35_BracketFromLiveBaseline ==
    [][\A i \in 1..MaxInFlight :
          openPositionSend(i, TRUE, TRUE) =>
             /\ todayOpenPrice # NoPrice
             /\ pendingSlTp'[1] # Bracket(placements[i].type, NoPrice)]_vars

\* C36: the bracket an opening fill attaches is the one stashed by the
\* placement whose order the broker filled, never the one of another
\* placement.
C36_BracketOfFilledOrder ==
    [][\A o \in brokerOrders, positionId \in PositionIds :
          (/\ brokerFills(o, positionId, TRUE)
           /\ sent' # <<>>)
          => sent'[1].bracket = <<[stopLoss |-> o.stopLoss,
                                  takeProfit |-> o.takeProfit]>>]_vars

\* C37: a position-reconcile or quote-subscription request is sent only
\* when the account authentication has succeeded on the current connection,
\* the reconcile of the engine's initialize included.
C37_NoRequestBeforeReady ==
    [][SentNow("ProtoOAReconcileReq") \cup SentNow("ProtoOASubscribeSpotsReq") # {}
          => authenticated']_vars

\* C38: a placement emits trade-opened only if the reply carrying its
\* request's id is not an error response; on a reply of the error type it
\* emits trade-error.
C38_ErrorReplyFailsPlacement ==
    [][\A i \in 1..MaxInFlight, payloadType \in OrderReplies :
          openPositionReplied(i, payloadType) =>
             IF payloadType = "ProtoOAErrorRes"
             THEN tradeSignal' = "trade-error"
             ELSE tradeSignal' = "trade-opened"]_vars

C40_StoreMatchesMemory ==
    (saves = <<>> /\ dbState # <<>>) =>
        dbState[1] = [todayTradeDone |-> todayTradeDone,
                      lastResetDate |-> lastResetDate]

====
